---- MODULE Spec2Model ----
(***************************************************************************)
(* Incident aggregation engine of nazra: create_simulation_alert with its  *)
(* notification throttle and get_or_create_incident (routers/stream.py),   *)
(* the stale-incident sweep, review_incident and close_incident            *)
(* (routers/incidents.py) and the Incident statistics (models/incident.py).*)
(* Time is in seconds, confidences are in tenths (9 stands for 0.9), the   *)
(* running mean is an exact fraction.  The database is the committed rows; *)
(* a detection handler is split at its awaits (camera upsert, find-active  *)
(* query, flush, commit, notification), each handler holding the row it    *)
(* loaded in its own session.                                              *)
(***************************************************************************)
EXTENDS Integers, Sequences, FiniteSets, TLC

\* ---------------------------------------------------------------- bounds
MaxTasks == 2
MaxIncidents == 2
MaxEvents == 5
MaxSeq == 4
StartTime == 1000
\* DetectionPipeline(num_workers, queue_size), MultiCameraProcessor(
\* max_queue_size) and CameraConfig.skip_frames, scaled down; the frames each
\* camera reads; the callbacks registered with add_result_callback
num_workers == 2
queue_size == 2
max_queue_size == 3
skip_frames == 2
MaxFrames == 2
NumCallbacks == 2
\* the pipeline's life cycle: the asyncio tasks it creates, the calls of start
MaxAsyncTasks == 4
MaxStarts == 2
\* the live stream: the frames a stream yields, and how far its clock runs
MaxStreamFrames == 6
MaxStreamClock == 130
\* camera_manager.py: the captures opened for one camera
MaxCaptures == 3
\* MultiCameraProcessor(max_cameras), scaled down
max_cameras == 3
\* _check_alert: how far its clock runs
MaxAlertClock == 11

\* ------------------------------------------------------ program constants
INCIDENT_TIMEOUT_MINUTES == 5
ALERT_COOLDOWN_SECONDS == 10
MAX_ALERTS_PER_CAMERA == 5
BROADCAST_EVERY == 10
SIMULATION_ALERT_INTERVAL == 60
\* the consecutive read failures after which a reader loop gives up
max_consecutive_failures == 10
\* FrameBuffer.should_skip: "if self._skip_count[camera_id] < 10"
MAX_CONSECUTIVE_SKIPS == 10
\* CameraConnection.max_reconnect_attempts
max_reconnect_attempts == 5
\* CameraConfig.min_alert_interval, in seconds
min_alert_interval == 5
\* generate_video_frames_with_detection: "detection_interval = 5"
detection_interval == 5
CACHE_CLEANUP_INTERVAL == 60
\* cleanup_stale_caches: "if current_time - timestamp > 30.0"
STALE_AFTER == 30

TimeoutSeconds == INCIDENT_TIMEOUT_MINUTES * 60

\* ------------------------------------------------------------ input sets
CameraIds == {"simulation:knife.mp4", "simulation:gun.mp4"}
\* the detections a frame can carry: camera, class name, confidence
Detections == {<<"simulation:knife.mp4", "knife", 6>>,
               <<"simulation:knife.mp4", "knife", 9>>,
               <<"simulation:knife.mp4", "gun", 9>>,
               <<"simulation:gun.mp4", "gun", 6>>}
SeqConfidences == {0, 5, 7, 9}
TickSteps == {10, 300, 301}
\* the reviews an operator submits: status, reviewed_by, notes ("" when omitted)
Reviews == {<<"REVIEWED", "operator", "">>,
            <<"CONFIRMED", "operator", "checked">>,
            <<"FALSE_ALARM", "operator", "">>}
Tasks == 1..MaxTasks

None == -1
NoName == "None"

\* swept, absorbed, capped and handled are history: the times of the sweeps
\* run in succession, the detections fed to the statistics, per camera the
\* number of detections dropped at the cap since it was reached, and for each
\* handler past its commit what its broadcast and its notification did and
\* what it returned
VARIABLES now, events, incidents, alerts, cameras,
          simulation_alert_cooldown, simulation_alert_count,
          task, nextAlert, broadcasts, notifications, swept, absorbed,
          capped, handled

\* detection_pipeline.py: the asyncio.PriorityQueue, the capture loops, the
\* workers, and per callback the results it was called with (history)
VARIABLES task_queue, capture, worker, delivered

\* multi_camera.py: the queue.PriorityQueue (its heap list), the reader
\* threads, what the last frame_queue.get() did (history), and the processing
\* loop with the packet in its hands: how its detection ended and the sinks
\* called with its result so far (kept until the next packet is taken)
VARIABLES frame_queue, reader, served, processing

\* stream.py, the live stream: the generators (one per camera here; what
\* the last frame's motion check and detection did, and whether the latest
\* detection that ran found anything, are history), _motion_cache (each
\* entry with the time it was written, which is history), _frame_cache and
\* _last_cleanup
VARIABLES stream, motion_cache, frame_cache, last_cleanup

PipelineVars == <<task_queue, capture, worker, delivered>>

StreamVars == <<stream, motion_cache, frame_cache, last_cleanup>>

\* detection_pipeline.py, the life cycle: the DetectionPipeline object
\* (_running, _workers, _active_cameras, and the number of calls of start,
\* which is history) and the asyncio tasks it has created
VARIABLES pipeline, asyncio_tasks

LifecycleVars == <<pipeline, asyncio_tasks>>

\* detection_pipeline.py, FrameBuffer: _last_hash and _skip_count, and as
\* history the frames skipped in a row and what the last call was given and
\* returned
VARIABLES frame_buffer

FrameBufferVars == <<frame_buffer>>

\* multi_camera.py, _check_alert: per camera its CameraConfig's
\* alert_on_detection and its CameraState's last_alert_time, and as history
\* the on_alert invocations (time and severity of the detection)
VARIABLES camera_states, on_alert_calls

CheckAlertVars == <<camera_states, on_alert_calls>>

\* multi_camera.py, the registry: the key sets of cameras, readers and
\* stop_events, and as history the last add_camera / remove_camera call with
\* what it returned
VARIABLES registry, registry_call

RegistryVars == <<registry, registry_call>>

\* camera_manager.py: per camera its CameraConnection (status, capture,
\* reconnect_attempts, whether last_frame is set), the captures opened for
\* it that are not released, how many were opened (history) and where its
\* _stream_loop task stands
VARIABLES camera_manager

CameraManagerVars == <<camera_manager>>

ServiceVars == <<FrameBufferVars, CheckAlertVars, RegistryVars,
                 CameraManagerVars>>

MultiCameraVars == <<frame_queue, reader, served, processing>>

vars == <<now, events, incidents, alerts, cameras,
          simulation_alert_cooldown, simulation_alert_count,
          task, nextAlert, broadcasts, notifications, swept, absorbed,
          capped, handled, PipelineVars, MultiCameraVars, StreamVars,
          LifecycleVars, ServiceVars>>

\* ---------------------------------------------------------------- helpers
RECURSIVE GCD(_, _)
GCD(a, b) == IF b = 0 THEN a ELSE GCD(b, a % b)

Frac(n, d) == LET g == GCD(n, d) IN [num |-> n \div g, den |-> d \div g]

FracOf(c) == [num |-> c, den |-> 1]

Get(d, k, default) == IF k \in DOMAIN d THEN d[k] ELSE default

Put(d, k, v) == [x \in (DOMAIN d) \cup {k} |-> IF x = k THEN v ELSE d[x]]

EmptyDict == [x \in {} |-> 0]

\* camera_id.replace(":", "_")
db_camera_id(camera_id) ==
    CASE camera_id = "simulation:knife.mp4" -> "simulation_knife.mp4"
      [] camera_id = "simulation:gun.mp4" -> "simulation_gun.mp4"
      [] OTHER -> camera_id

CLASS_NAME_TO_WEAPON_TYPE(class_name) ==
    CASE class_name \in {"knife", "Knife"} -> "KNIFE"
      [] class_name \in {"handgun", "Handgun", "pistol", "Pistol", "gun", "Gun"} -> "PISTOL"
      [] class_name \in {"rifle", "Rifle"} -> "RIFLE"
      [] OTHER -> "OTHER"

\* Incident(...) after flush: the column defaults of models/incident.py
NewIncident(camera_id, weapon_type, t) ==
    [camera_id |-> camera_id, primary_weapon_type |-> weapon_type,
     status |-> "ACTIVE", alert_count |-> 0, detection_count |-> 0,
     max_confidence |-> 0, avg_confidence |-> FracOf(0), best_snapshot |-> 0,
     last_detection_at |-> t, ended_at |-> None,
     reviewed_by |-> NoName, reviewed_at |-> None, notes |-> ""]

NoIncident == NewIncident("", "", None)

IdleTask == [pc |-> "idle", camera_id |-> "", class_name |-> "", confidence |-> 0,
             alert_id |-> 0, incident_id |-> 0, is_new_incident |-> FALSE,
             loaded |-> NoIncident, incident |-> NoIncident]

\* ------------------------------------------------- incident: pure parts

\* the WHERE clause of get_or_create_incident
MatchesActive(inc, camera_id, weapon_type, t) ==
    /\ inc.camera_id = camera_id
    /\ inc.primary_weapon_type = weapon_type
    /\ inc.status = "ACTIVE"
    /\ inc.last_detection_at >= t - TimeoutSeconds

\* avg' = (avg * (n - 1) + c) / n
IncrementalMean(avg, n, confidence) ==
    Frac(avg.num * (n - 1) + confidence * avg.den, avg.den * n)

\* "Update average confidence": the avg == 0 test, then the incremental mean
UpdateAverage(avg, n, confidence) ==
    IF avg.num = 0 THEN FracOf(confidence) ELSE IncrementalMean(avg, n, confidence)

\* mutant of UpdateBest: >= in place of >
UpdateBest_OnTie(inc, confidence, snapshot) ==
    IF confidence >= inc.max_confidence
    THEN [inc EXCEPT !.max_confidence = confidence, !.best_snapshot = snapshot]
    ELSE inc

\* "Update max confidence and best snapshot"
UpdateBest(inc, confidence, snapshot) ==
    IF confidence > inc.max_confidence
    THEN [inc EXCEPT !.max_confidence = confidence, !.best_snapshot = snapshot]
    ELSE inc

\* "Update incident statistics" of create_simulation_alert
UpdateStatistics(inc, confidence, t, snapshot) ==
    LET counted == [inc EXCEPT !.alert_count = @ + 1,
                               !.detection_count = @ + 1,
                               !.last_detection_at = t]
        best == UpdateBest(counted, confidence, snapshot)
    IN [best EXCEPT !.avg_confidence =
                        UpdateAverage(@, best.detection_count, confidence)]

\* Incident.add_detection
add_detection(inc, confidence, t) ==
    LET counted == [inc EXCEPT !.detection_count = @ + 1,
                               !.last_detection_at = t]
        maxed == IF confidence > counted.max_confidence
                 THEN [counted EXCEPT !.max_confidence = confidence]
                 ELSE counted
    IN [maxed EXCEPT !.avg_confidence =
                         UpdateAverage(@, maxed.detection_count, confidence)]

\* mutant of IsStale: the status filter forgotten
IsStale_AnyStatus(inc, t) == inc.last_detection_at < t - TimeoutSeconds

\* the WHERE clause of _auto_close_stale_incidents
IsStale(inc, t) ==
    /\ inc.status = "ACTIVE"
    /\ inc.last_detection_at < t - TimeoutSeconds

\* mutant of AutoClose: ended_at written, the status left as it was
AutoClose_EndOnly(inc, t) == [inc EXCEPT !.ended_at = t]

\* the loop body of _auto_close_stale_incidents
AutoClose(inc, t) == [inc EXCEPT !.status = "CLOSED", !.ended_at = t]

\* mutant of ReviewedIncident: ended_at never written
ReviewedIncident_NoEnd(inc, status, reviewed_by, notes, t) ==
    [inc EXCEPT !.status = status,
                !.reviewed_by = reviewed_by,
                !.reviewed_at = t,
                !.notes = IF notes # "" THEN notes ELSE @]

\* the incident part of review_incident
ReviewedIncident(inc, status, reviewed_by, notes, t) ==
    [inc EXCEPT !.status = status,
                !.reviewed_by = reviewed_by,
                !.reviewed_at = t,
                !.notes = IF notes # "" THEN notes ELSE @,
                !.ended_at = IF @ = None THEN t ELSE @]

\* mutant of alert_status_map: Reviewed copied to the alerts as it is
alert_status_map_Copy(status) ==
    CASE status = "CONFIRMED" -> "CONFIRMED"
      [] status = "FALSE_ALARM" -> "FALSE_ALARM"
      [] status = "REVIEWED" -> "REVIEWED"
      [] OTHER -> NoName

alert_status_map(status) ==
    CASE status = "CONFIRMED" -> "CONFIRMED"
      [] status = "FALSE_ALARM" -> "FALSE_ALARM"
      [] status = "REVIEWED" -> "UNDER_REVIEW"
      [] OTHER -> NoName

\* the body of close_incident
ClosedIncident(inc, t) == [inc EXCEPT !.status = "CLOSED", !.ended_at = t]

\* the UPDATE a commit emits: only the attributes the session changed
MergeCommit(row, loaded, changed) ==
    [f \in DOMAIN row |-> IF changed[f] # loaded[f] THEN changed[f] ELSE row[f]]

IncidentIds == 1..Len(incidents)

PendingNew == Cardinality({t \in Tasks : task[t].pc \in {"flush", "commit"} /\ task[t].is_new_incident})

\* ------------------------------------------------- the detection pipelines
PipelineCameras == {"cam1", "cam2"}

Workers == 1..num_workers

Callbacks == 1..NumCallbacks

\* DetectionPriority and FramePriority: HIGH = 1, NORMAL = 2, LOW = 3
HIGH == 1
NORMAL == 2
LOW == 3

\* the priority each camera was added with
camera_priority(camera_id) == IF camera_id = "cam1" THEN HIGH ELSE NORMAL

NoFrame == [priority |-> 0, timestamp |-> 0, camera_id |-> "", frame_number |-> 0]

PipelineInit ==
    /\ task_queue = {}
    /\ capture = [c \in PipelineCameras |-> [pc |-> "fetch", frames |-> 0, task |-> NoFrame]]
    /\ worker = [w \in Workers |-> [pc |-> "get", result |-> NoFrame, callback |-> 0]]
    /\ delivered = [k \in Callbacks |-> <<>>]

MultiCameraInit ==
    /\ frame_queue = <<>>
    /\ reader = [c \in PipelineCameras |->
                    [pc |-> "read", frame_count |-> 0, packet |-> NoFrame,
                     stop_event |-> FALSE, registered |-> TRUE,
                     released |-> FALSE, failures |-> 0, eligible |-> <<>>]]
    /\ served = [before |-> <<>>, packet |-> NoFrame, raised |-> FALSE]
    /\ processing = [pc |-> "get", packet |-> NoFrame, detector |-> "none",
                     result |-> "none", sinks |-> {}]

StreamInit ==
    /\ stream = [c \in PipelineCameras |->
                    [pc |-> "idle", frame_count |-> 0, consecutive_failures |-> 0,
                     last_detections |-> FALSE,
                     should_detect |-> FALSE, has_motion |-> FALSE,
                     had_detections |-> FALSE, detected |-> FALSE,
                     latest |-> FALSE]]
    /\ motion_cache = EmptyDict
    /\ frame_cache = EmptyDict
    /\ last_cleanup = 0

LifecycleInit ==
    /\ pipeline = [running |-> FALSE, workers |-> {},
                   active_cameras |-> EmptyDict, start_calls |-> 0]
    /\ asyncio_tasks = <<>>

NoCall == [camera_id |-> "", frame_hash |-> "", known |-> FALSE,
           same |-> FALSE, skip |-> FALSE]

FrameBufferInit ==
    frame_buffer = [last_hash |-> EmptyDict, skip_count |-> EmptyDict,
                    run |-> [c \in PipelineCameras |-> 0], call |-> NoCall]

\* CameraState(config): last_alert_time = 0.0; cam1 is configured with
\* alert_on_detection on, cam2 with it off
CheckAlertInit ==
    /\ camera_states = [c \in PipelineCameras |->
           [alert_on_detection |-> (c = "cam1"), last_alert_time |-> 0]]
    /\ on_alert_calls = [c \in PipelineCameras |-> <<>>]

RegistryInit ==
    /\ registry = [cameras |-> {}, readers |-> {}, stop_events |-> {}]
    /\ registry_call = [op |-> "", camera_id |-> "", returned |-> FALSE]

\* CameraConnection(...) as add_camera creates it; no capture is None (0)
CameraManagerInit ==
    camera_manager = [c \in PipelineCameras |->
        [status |-> "offline", capture |-> 0, open |-> {}, opened |-> 0,
         reconnect_attempts |-> 0, last_frame |-> FALSE, pc |-> "none"]]

ServiceInit ==
    /\ FrameBufferInit
    /\ CheckAlertInit
    /\ RegistryInit
    /\ CameraManagerInit

\* ------------------------------------------------------------------ Init
Init ==
    /\ now = StartTime
    /\ events = 0
    /\ incidents = <<>>
    /\ alerts = <<>>
    /\ cameras = {}
    /\ simulation_alert_cooldown = EmptyDict
    /\ simulation_alert_count = EmptyDict
    /\ task = [t \in Tasks |-> IdleTask]
    /\ nextAlert = 1
    /\ broadcasts = 0
    /\ notifications = 0
    /\ swept = <<>>
    /\ absorbed = <<>>
    /\ capped = [c \in CameraIds |-> 0]
    /\ handled = <<>>
    /\ PipelineInit
    /\ MultiCameraInit
    /\ StreamInit
    /\ LifecycleInit
    /\ ServiceInit

\* the clock moves between any two steps
Tick(d) ==
    /\ events < MaxEvents
    /\ now' = now + d
    /\ events' = events + 1
    /\ UNCHANGED <<incidents, alerts, cameras, simulation_alert_cooldown,
                   simulation_alert_count, task, nextAlert, broadcasts,
                   notifications, swept, absorbed, capped>>

\* mutant of AtCap: > in place of >=
AtCap_OffByOne(alert_count) == alert_count > MAX_ALERTS_PER_CAMERA

\* "Check if max alerts reached for this camera (per session)"
AtCap(alert_count) == alert_count >= MAX_ALERTS_PER_CAMERA

\* mutant of InCooldown: the cooldown compared with the time since the epoch
InCooldown_Skipped(current_time, last_alert_time) ==
    current_time - last_alert_time < 0

\* "Check cooldown between alerts"
InCooldown(current_time, last_alert_time) ==
    current_time - last_alert_time < ALERT_COOLDOWN_SECONDS

\* create_simulation_alert up to its first await: the throttle, the alert id
\* and the snapshot.  A suppressed detection returns None at once.
create_simulation_alert(t, camera_id, class_name, confidence) ==
    /\ task[t].pc = "idle"
    /\ \A u \in Tasks : u < t => task[u].pc # "idle"
    /\ LET alert_count == Get(simulation_alert_count, camera_id, 0)
           last_alert_time == Get(simulation_alert_cooldown, camera_id, 0)
       IN IF AtCap(alert_count)
          THEN /\ simulation_alert_count' =
                      IF alert_count = MAX_ALERTS_PER_CAMERA
                      THEN Put(simulation_alert_count, camera_id, alert_count + 1)
                      ELSE simulation_alert_count
               /\ capped[camera_id] < BROADCAST_EVERY
               /\ capped' = [capped EXCEPT ![camera_id] = @ + 1]
               /\ UNCHANGED <<simulation_alert_cooldown, task, nextAlert, events>>
          ELSE IF InCooldown(now, last_alert_time)
          THEN UNCHANGED <<simulation_alert_cooldown, simulation_alert_count,
                           task, nextAlert, events, capped>>
          ELSE /\ events < MaxEvents
               /\ events' = events + 1
               /\ simulation_alert_cooldown' =
                      Put(simulation_alert_cooldown, camera_id, now)
               /\ simulation_alert_count' =
                      Put(simulation_alert_count, camera_id, alert_count + 1)
               /\ task' = [task EXCEPT ![t] =
                      [IdleTask EXCEPT !.pc = "find",
                                       !.camera_id = camera_id,
                                       !.class_name = class_name,
                                       !.confidence = confidence,
                                       !.alert_id = nextAlert]]
               /\ nextAlert' = nextAlert + 1
               /\ UNCHANGED capped
    /\ UNCHANGED <<now, incidents, alerts, cameras, broadcasts,
                   notifications, swept, absorbed>>

\* ensure_simulation_camera_exists (the camera row for the sanitized id), then
\* get_or_create_incident's query: scalar_one_or_none() returns the one
\* matching row, None when there is none, and raises when there are several;
\* the exception leaves create_simulation_alert through its except clause.
get_or_create_incident(t) ==
    /\ task[t].pc = "find"
    /\ cameras' = cameras \cup {db_camera_id(task[t].camera_id)}
    /\ LET camera_id == db_camera_id(task[t].camera_id)
           weapon_type == CLASS_NAME_TO_WEAPON_TYPE(task[t].class_name)
           found == {i \in IncidentIds :
                       MatchesActive(incidents[i], camera_id, weapon_type, now)}
       IN IF Cardinality(found) > 1
          THEN task' = [task EXCEPT ![t] = IdleTask]
          ELSE IF found # {}
          THEN LET i == CHOOSE i \in found : TRUE
               IN task' = [task EXCEPT ![t] =
                      [@ EXCEPT !.pc = "commit",
                                !.incident_id = i,
                                !.is_new_incident = FALSE,
                                !.loaded = incidents[i],
                                !.incident = UpdateStatistics(incidents[i],
                                                task[t].confidence, now,
                                                task[t].alert_id)]]
          ELSE /\ Len(incidents) + PendingNew < MaxIncidents
               /\ task' = [task EXCEPT ![t] =
                      [@ EXCEPT !.pc = "flush", !.is_new_incident = TRUE]]
    /\ UNCHANGED <<now, events, incidents, alerts,
                   simulation_alert_cooldown, simulation_alert_count,
                   nextAlert, broadcasts, notifications, swept, absorbed, capped>>

\* get_or_create_incident, db.add + flush of the new row, then the statistics
\* of create_simulation_alert on it
flush_new_incident(t) ==
    /\ task[t].pc = "flush"
    /\ LET fresh == NewIncident(db_camera_id(task[t].camera_id),
                                CLASS_NAME_TO_WEAPON_TYPE(task[t].class_name), now)
       IN task' = [task EXCEPT ![t] =
              [@ EXCEPT !.pc = "commit",
                        !.loaded = fresh,
                        !.incident = UpdateStatistics(fresh, task[t].confidence,
                                                      now, task[t].alert_id)]]
    /\ UNCHANGED <<now, events, incidents, alerts, cameras,
                   simulation_alert_cooldown, simulation_alert_count,
                   nextAlert, broadcasts, notifications, swept, absorbed, capped>>

\* "Send WebSocket notification ONLY for new incidents or significant updates"
should_broadcast(is_new_incident, incident_alert_count) ==
    is_new_incident \/ incident_alert_count % BROADCAST_EVERY = 0

\* mutant of should_notify: the notification tied to the broadcast's rule
should_notify_Always(is_new_incident) == TRUE

\* "Send security notification ONLY for new incidents"
should_notify(is_new_incident) == is_new_incident

\* db.commit() of create_simulation_alert: the alert row and the incident row
CommitRows(t) ==
    LET id == IF task[t].is_new_incident THEN Len(incidents) + 1
              ELSE task[t].incident_id
    IN /\ incidents' =
              IF task[t].is_new_incident
              THEN Append(incidents, task[t].incident)
              ELSE [incidents EXCEPT ![id] =
                       MergeCommit(@, task[t].loaded, task[t].incident)]
       /\ alerts' = Append(alerts,
              [id |-> task[t].alert_id,
               incident_id |-> id,
               confidence |-> task[t].confidence,
               status |-> "NEW"])

\* create_simulation_alert from db.commit() to its end in one step: the
\* commit, then the broadcast and the notification, then return alert_id
commit_alert(t) ==
    /\ task[t].pc = "commit"
    /\ CommitRows(t)
    /\ broadcasts' = IF should_broadcast(task[t].is_new_incident,
                                         task[t].incident.alert_count)
                      THEN broadcasts + 1 ELSE broadcasts
    /\ notifications' = IF should_notify(task[t].is_new_incident)
                        THEN notifications + 1
                        ELSE notifications
    /\ task' = [task EXCEPT ![t] = IdleTask]
    /\ swept' = <<>>
    /\ UNCHANGED <<now, events, cameras, simulation_alert_cooldown,
                   simulation_alert_count, nextAlert, absorbed, capped>>

\* _auto_close_stale_incidents, as get_incidents and get_incidents_by_camera
\* run it before they list
auto_close_stale_incidents ==
    /\ events < MaxEvents
    /\ events' = events + 1
    /\ incidents' = [i \in IncidentIds |->
                        IF IsStale(incidents[i], now)
                        THEN AutoClose(incidents[i], now)
                        ELSE incidents[i]]
    /\ swept' = IF swept = <<>> THEN <<now>> ELSE <<swept[Len(swept)], now>>
    /\ UNCHANGED <<now, alerts, cameras, simulation_alert_cooldown,
                   simulation_alert_count, task, nextAlert, broadcasts,
                   notifications, absorbed, capped>>

review_incident(incident_id, status, reviewed_by, notes) ==
    /\ events < MaxEvents
    /\ events' = events + 1
    /\ incident_id \in IncidentIds
    /\ incidents' = [incidents EXCEPT ![incident_id] =
                        ReviewedIncident(@, status, reviewed_by, notes, now)]
    /\ alerts' = [k \in 1..Len(alerts) |->
                     IF alerts[k].incident_id = incident_id
                        /\ alert_status_map(status) # NoName
                     THEN [alerts[k] EXCEPT !.status = alert_status_map(status)]
                     ELSE alerts[k]]
    /\ swept' = <<>>
    /\ UNCHANGED <<now, cameras, simulation_alert_cooldown,
                   simulation_alert_count, task, nextAlert, broadcasts,
                   notifications, absorbed, capped>>

close_incident(incident_id) ==
    /\ events < MaxEvents
    /\ events' = events + 1
    /\ incident_id \in IncidentIds
    /\ incidents' = [incidents EXCEPT ![incident_id] = ClosedIncident(@, now)]
    /\ swept' = <<>>
    /\ UNCHANGED <<now, alerts, cameras, simulation_alert_cooldown,
                   simulation_alert_count, task, nextAlert, broadcasts,
                   notifications, absorbed, capped>>

\* mutant of reset_simulation_alerts: the last-alert time left as it was
reset_simulation_alerts_CountOnly(camera_id) ==
    /\ events < MaxEvents
    /\ events' = events + 1
    /\ IF camera_id \in DOMAIN simulation_alert_count
       THEN /\ simulation_alert_count' = Put(simulation_alert_count, camera_id, 0)
            /\ capped' = [capped EXCEPT ![camera_id] = 0]
       ELSE UNCHANGED <<simulation_alert_count, capped>>
    /\ UNCHANGED <<now, incidents, alerts, cameras, task, nextAlert,
                   broadcasts, notifications, swept, absorbed,
                   simulation_alert_cooldown>>

\* reset_simulation_alerts(camera_id)
reset_simulation_alerts(camera_id) ==
    /\ events < MaxEvents
    /\ events' = events + 1
    /\ IF camera_id \in DOMAIN simulation_alert_count
       THEN /\ simulation_alert_count' = Put(simulation_alert_count, camera_id, 0)
            /\ simulation_alert_cooldown' = Put(simulation_alert_cooldown, camera_id, 0)
            /\ capped' = [capped EXCEPT ![camera_id] = 0]
       ELSE UNCHANGED <<simulation_alert_count, simulation_alert_cooldown, capped>>
    /\ UNCHANGED <<now, incidents, alerts, cameras, task, nextAlert,
                   broadcasts, notifications, swept, absorbed>>

\* reset_simulation_alerts() without a camera id
reset_all_simulation_alerts ==
    /\ events < MaxEvents
    /\ events' = events + 1
    /\ simulation_alert_count' = EmptyDict
    /\ simulation_alert_cooldown' = EmptyDict
    /\ capped' = [c \in CameraIds |-> 0]
    /\ UNCHANGED <<now, incidents, alerts, cameras, task, nextAlert,
                   broadcasts, notifications, swept, absorbed>>

\* the requests and the handler steps other than the end of
\* create_simulation_alert
Requests ==
    \/ \E d \in TickSteps : Tick(d)
    \/ \E t \in Tasks, d \in Detections :
          create_simulation_alert(t, d[1], d[2], d[3])
    \/ \E t \in Tasks : get_or_create_incident(t)
    \/ \E t \in Tasks : flush_new_incident(t)
    \/ auto_close_stale_incidents
    \/ \E i \in 1..MaxIncidents, r \in Reviews :
          review_incident(i, r[1], r[2], r[3])
    \/ \E i \in 1..MaxIncidents : close_incident(i)
    \/ \E c \in CameraIds : reset_simulation_alerts(c)
    \/ reset_all_simulation_alerts

Next ==
    /\ \/ Requests
       \/ \E t \in Tasks : commit_alert(t)
    /\ UNCHANGED <<handled, PipelineVars, MultiCameraVars, StreamVars,
                   LifecycleVars, ServiceVars>>

Spec == Init /\ [][Next]_vars

\* handlers run one at a time: no second create_simulation_alert in flight
SeqNext == Next /\ \A t \in Tasks \ {1} : task'[t].pc = "idle"

SeqSpec == Init /\ [][SeqNext]_vars

\* a burst: the clock never jumps a whole incident window in one step
RaceNext == Next /\ now' - now < TimeoutSeconds

RaceSpec == Init /\ [][RaceNext]_vars

\* every handler that was started runs to its end: the event loop resumes
\* each awaiting coroutine.  Requests and the clock are the environment's.
HandlerStep ==
    /\ \E t \in Tasks :
          get_or_create_incident(t) \/ flush_new_incident(t) \/ commit_alert(t)
    /\ UNCHANGED <<handled, PipelineVars, MultiCameraVars, StreamVars,
                   LifecycleVars, ServiceVars>>

FairSpec == Spec /\ WF_vars(HandlerStep)

\* ------------------------------------------------ a camera close to its cap
\* the state after k detections (simulation:knife.mp4, knife, 0.6) were
\* accepted one every 10 seconds, each handler run to its end, the last one
\* 10 seconds before t0: one Active incident with k alerts
WarmupDetection == <<"simulation:knife.mp4", "knife", 6>>

AcceptedAt(j, k, t0) == t0 - ALERT_COOLDOWN_SECONDS * (k - j + 1)

RECURSIVE Fed(_, _, _)
Fed(j, k, t0) ==
    IF j = 0
    THEN NewIncident(db_camera_id(WarmupDetection[1]),
                     CLASS_NAME_TO_WEAPON_TYPE(WarmupDetection[2]),
                     AcceptedAt(1, k, t0))
    ELSE UpdateStatistics(Fed(j - 1, k, t0), WarmupDetection[3],
                          AcceptedAt(j, k, t0), j)

AfterAccepted(k, t0) ==
    /\ now = t0
    /\ incidents = <<Fed(k, k, t0)>>
    /\ alerts = [j \in 1..k |-> [id |-> j, incident_id |-> 1,
                                 confidence |-> WarmupDetection[3],
                                 status |-> "NEW"]]
    /\ cameras = {db_camera_id(WarmupDetection[1])}
    /\ simulation_alert_cooldown =
           Put(EmptyDict, WarmupDetection[1], AcceptedAt(k, k, t0))
    /\ simulation_alert_count = Put(EmptyDict, WarmupDetection[1], k)
    /\ task = [t \in Tasks |-> IdleTask]
    /\ nextAlert = k + 1
    /\ broadcasts = 1
    /\ notifications = 1
    /\ swept = <<>>
    /\ absorbed = <<>>
    /\ capped = [c \in CameraIds |-> 0]
    /\ handled = <<>>
    /\ PipelineInit
    /\ MultiCameraInit
    /\ StreamInit
    /\ LifecycleInit
    /\ ServiceInit

InitCap ==
    /\ events = 0
    /\ \E k \in (MAX_ALERTS_PER_CAMERA - 2)..(MAX_ALERTS_PER_CAMERA - 1) :
          AfterAccepted(k, StartTime)

\* the burst goes on: handlers one at a time, the clock in cooldown steps
CapNext == SeqNext /\ now' - now <= ALERT_COOLDOWN_SECONDS

CapSpec == InitCap /\ [][CapNext]_vars

\* the burst with handlers in flight together, between two resets: the
\* detections, the handlers' steps in any interleaving, and the clock in
\* cooldown steps
BurstNext ==
    /\ \/ Tick(ALERT_COOLDOWN_SECONDS)
       \/ \E t \in Tasks, d \in Detections :
             create_simulation_alert(t, d[1], d[2], d[3])
       \/ \E t \in Tasks : get_or_create_incident(t)
       \/ \E t \in Tasks : flush_new_incident(t)
       \/ \E t \in Tasks : commit_alert(t)
    /\ UNCHANGED <<handled, PipelineVars, MultiCameraVars, StreamVars,
                   LifecycleVars, ServiceVars>>

BurstSpec == InitCap /\ [][BurstNext]_vars

\* ------------------------------- the end of the handler, one await at a time
\* mutant of ReturnedAlertId: an error of the broadcast or of the notification
\* reaches the outer except clause, which returns None
ReturnedAlertId_Propagated(alert_id, ws_err, notif_err) ==
    IF ws_err \/ notif_err THEN None ELSE alert_id

\* "return alert_id": ws_err and notif_err were caught and logged by the
\* try/except around the broadcast and around the notification
ReturnedAlertId(alert_id, ws_err, notif_err) == alert_id

Handled(alert_id) ==
    CHOOSE k \in 1..Len(handled) : handled[k].alert_id = alert_id

\* "await db.commit()" and the end of the session block
db_commit(t) ==
    /\ task[t].pc = "commit"
    /\ CommitRows(t)
    /\ task' = [task EXCEPT ![t] =
           [@ EXCEPT !.pc = "broadcast",
                     !.incident_id = IF task[t].is_new_incident
                                     THEN Len(incidents) + 1
                                     ELSE task[t].incident_id]]
    /\ handled' = Append(handled, [alert_id |-> task[t].alert_id,
                                   ws_err |-> FALSE, notif_err |-> FALSE,
                                   returned |-> None])
    /\ swept' = <<>>
    /\ UNCHANGED <<now, events, cameras, simulation_alert_cooldown,
                   simulation_alert_count, nextAlert, broadcasts,
                   notifications, absorbed, capped>>

\* "if should_broadcast: try: await manager.broadcast_alert(...)
\*  except Exception as ws_err: logger.warning(...)"
broadcast_alert(t, raised) ==
    /\ task[t].pc = "broadcast"
    /\ IF should_broadcast(task[t].is_new_incident, task[t].incident.alert_count)
       THEN /\ broadcasts' = broadcasts + 1
            /\ handled' = [handled EXCEPT ![Handled(task[t].alert_id)].ws_err = raised]
       ELSE /\ ~raised
            /\ UNCHANGED <<broadcasts, handled>>
    /\ task' = [task EXCEPT ![t].pc = "notify"]
    /\ UNCHANGED <<now, events, incidents, alerts, cameras,
                   simulation_alert_cooldown, simulation_alert_count,
                   nextAlert, notifications, swept, absorbed, capped>>

\* "if is_new_incident: try: await notification_service
\*  .send_alert_notification(...) except Exception as notif_err:
\*  logger.warning(...)", then "return alert_id"
send_alert_notification(t, raised) ==
    /\ task[t].pc = "notify"
    /\ should_notify(task[t].is_new_incident) \/ ~raised
    /\ notifications' = IF should_notify(task[t].is_new_incident)
                        THEN notifications + 1
                        ELSE notifications
    /\ LET k == Handled(task[t].alert_id)
       IN handled' = [handled EXCEPT
              ![k].notif_err = raised,
              ![k].returned = ReturnedAlertId(task[t].alert_id,
                                              handled[k].ws_err, raised)]
    /\ task' = [task EXCEPT ![t] = IdleTask]
    /\ UNCHANGED <<now, events, incidents, alerts, cameras,
                   simulation_alert_cooldown, simulation_alert_count,
                   nextAlert, broadcasts, swept, absorbed, capped>>

\* handlers one at a time, the clock in cooldown steps
FailNext ==
    /\ \/ Requests /\ UNCHANGED handled
       \/ \E t \in Tasks : db_commit(t)
       \/ \E t \in Tasks, raised \in BOOLEAN : broadcast_alert(t, raised)
       \/ \E t \in Tasks, raised \in BOOLEAN : send_alert_notification(t, raised)
    /\ \A t \in Tasks \ {1} : task'[t].pc = "idle"
    /\ now' - now <= ALERT_COOLDOWN_SECONDS
    /\ UNCHANGED <<PipelineVars, MultiCameraVars, StreamVars, LifecycleVars, ServiceVars>>

FailSpec == Init /\ [][FailNext]_vars

\* ---------------------------------------- the statistics, one update at a time
\* two fresh incidents absorb the same detections, the first through the
\* statistics block of create_simulation_alert, the second through
\* Incident.add_detection
InitStats ==
    /\ now = StartTime
    /\ events = 0
    /\ incidents = <<NewIncident("simulation_knife.mp4", "KNIFE", StartTime),
                     NewIncident("simulation_knife.mp4", "KNIFE", StartTime)>>
    /\ alerts = <<>>
    /\ cameras = {}
    /\ simulation_alert_cooldown = EmptyDict
    /\ simulation_alert_count = EmptyDict
    /\ task = [t \in Tasks |-> IdleTask]
    /\ nextAlert = 1
    /\ broadcasts = 0
    /\ notifications = 0
    /\ swept = <<>>
    /\ absorbed = <<>>
    /\ capped = [c \in CameraIds |-> 0]
    /\ handled = <<>>
    /\ PipelineInit
    /\ MultiCameraInit
    /\ StreamInit
    /\ LifecycleInit
    /\ ServiceInit

StatsFrame == UNCHANGED <<alerts, cameras, simulation_alert_cooldown,
                          simulation_alert_count, task, nextAlert, broadcasts,
                          notifications, swept, capped>>

absorb_detection(confidence) ==
    /\ Len(absorbed) < MaxSeq
    /\ incidents' = <<UpdateStatistics(incidents[1], confidence, now, Len(absorbed) + 1),
                      add_detection(incidents[2], confidence, now)>>
    /\ absorbed' = Append(absorbed, [confidence |-> confidence, at |-> now])
    /\ UNCHANGED <<now, events>>
    /\ StatsFrame

StatsTick ==
    /\ events < MaxSeq
    /\ now' = now + ALERT_COOLDOWN_SECONDS
    /\ events' = events + 1
    /\ UNCHANGED <<incidents, absorbed>>
    /\ StatsFrame

NextStats ==
    /\ \/ \E c \in SeqConfidences : absorb_detection(c)
       \/ StatsTick
    /\ UNCHANGED <<handled, PipelineVars, MultiCameraVars, StreamVars,
                   LifecycleVars, ServiceVars>>

SpecStats == InitStats /\ [][NextStats]_vars

\* ------------------------------------------------- detection_pipeline.py
\* the alert handler and the incident routes stand still
AlertFrame == UNCHANGED <<events, incidents, alerts, cameras,
                          simulation_alert_cooldown, simulation_alert_count,
                          task, nextAlert, broadcasts, notifications, swept,
                          absorbed, capped, handled, StreamVars,
                          LifecycleVars, ServiceVars>>

\* asyncio.Queue.full()
Full == Cardinality(task_queue) >= queue_size

\* the order of the queue's entries (task.priority.value, task.timestamp, task)
EntryBefore(a, b) ==
    \/ a.priority < b.priority
    \/ a.priority = b.priority /\ a.timestamp < b.timestamp

\* PriorityQueue._get: heappop, the least entry
LeastEntry == CHOOSE a \in task_queue : \A b \in task_queue \ {a} : EntryBefore(a, b)

\* "await self._task_queue.put((task.priority.value, task.timestamp, task))":
\* Queue.put waits on a putter future while the queue is full
Enqueue(c, frame_task) ==
    IF Full
    THEN /\ capture' = [capture EXCEPT ![c] =
                [pc |-> "put", frames |-> frame_task.frame_number, task |-> frame_task]]
         /\ UNCHANGED task_queue
    ELSE /\ task_queue' = task_queue \cup {frame_task}
         /\ capture' = [capture EXCEPT ![c] =
                [pc |-> "fetch", frames |-> frame_task.frame_number, task |-> NoFrame]]

\* one turn of _camera_capture_loop from the frame _fetch_frame returned:
\* FrameTask (timestamp = time.time()), should_skip, then the put
camera_capture_loop(c, should_skip) ==
    /\ capture[c].pc = "fetch"
    /\ capture[c].frames < MaxFrames
    /\ now' = now + 1
    /\ IF should_skip
       THEN /\ capture' = [capture EXCEPT ![c].frames = @ + 1]
            /\ UNCHANGED task_queue
       ELSE Enqueue(c, [priority |-> camera_priority(c), timestamp |-> now,
                        camera_id |-> c, frame_number |-> capture[c].frames + 1])
    /\ UNCHANGED <<worker, delivered, MultiCameraVars>>
    /\ AlertFrame

\* a capture loop waiting in Queue.put is resumed once the queue has room
put_resumes(c) ==
    /\ capture[c].pc = "put"
    /\ ~Full
    /\ task_queue' = task_queue \cup {capture[c].task}
    /\ capture' = [capture EXCEPT ![c].pc = "fetch", ![c].task = NoFrame]
    /\ UNCHANGED <<now, worker, delivered, MultiCameraVars>>
    /\ AlertFrame

\* _worker_loop: the get, _process_task (detect has no await in it), and
\* _broadcast_result up to the call of the first callback
worker_loop(w) ==
    /\ worker[w].pc = "get"
    /\ task_queue # {}
    /\ task_queue' = task_queue \ {LeastEntry}
    /\ worker' = [worker EXCEPT ![w] =
           [pc |-> "callback", result |-> LeastEntry, callback |-> 1]]
    /\ delivered' = [delivered EXCEPT ![1] = Append(@, LeastEntry)]
    /\ UNCHANGED <<now, capture, MultiCameraVars>>
    /\ AlertFrame

\* _broadcast_result: "await callback(result)" returns, the next callback is
\* called; after the last one the worker goes back to the get
broadcast_result(w) ==
    /\ worker[w].pc = "callback"
    /\ IF worker[w].callback < NumCallbacks
       THEN /\ delivered' = [delivered EXCEPT ![worker[w].callback + 1] =
                   Append(@, worker[w].result)]
            /\ worker' = [worker EXCEPT ![w].callback = @ + 1]
       ELSE /\ worker' = [worker EXCEPT ![w] =
                   [pc |-> "get", result |-> NoFrame, callback |-> 0]]
            /\ UNCHANGED delivered
    /\ UNCHANGED <<now, task_queue, capture, MultiCameraVars>>
    /\ AlertFrame

PipelineNext ==
    \/ \E c \in PipelineCameras, should_skip \in BOOLEAN :
          camera_capture_loop(c, should_skip)
    \/ \E c \in PipelineCameras : put_resumes(c)
    \/ \E w \in Workers : worker_loop(w)
    \/ \E w \in Workers : broadcast_result(w)

PipelineSpec == Init /\ [][PipelineNext]_vars

\* ------------------------------------------------------- multi_camera.py
\* FramePacket.__lt__
FramePacket_lt(self, other) ==
    IF self.priority # other.priority
    THEN self.priority < other.priority
    ELSE self.timestamp < other.timestamp

\* (priority.value, packet) < (priority.value, packet), the comparison heapq
\* makes: tuples compare their first unequal items, found with ==.  Equal
\* priorities take it to packet == packet, the dataclass's __eq__ over
\* (camera_id, frame, ...): packets of one camera get to frame == frame, an
\* array whose truth value raises ValueError; packets of two cameras are
\* unequal and FramePacket.__lt__ decides.
TupleLt(a, b) ==
    IF a.priority # b.priority
    THEN IF a.priority < b.priority THEN "true" ELSE "false"
    ELSE IF a.camera_id = b.camera_id
    THEN "raise"
    ELSE IF FramePacket_lt(a, b) THEN "true" ELSE "false"

\* positions count from 0 as in heapq
At(heap, pos) == heap[pos + 1]

Swap(heap, i, j) ==
    [k \in 1..Len(heap) |-> IF k = i + 1 THEN heap[j + 1]
                            ELSE IF k = j + 1 THEN heap[i + 1]
                            ELSE heap[k]]

\* heapq's siftdown: the item at pos moves up while it is less than its
\* parent; a comparison that raises leaves the list as it is then
RECURSIVE siftdown(_, _, _)
siftdown(heap, startpos, pos) ==
    IF pos <= startpos
    THEN [heap |-> heap, raised |-> FALSE]
    ELSE LET parentpos == (pos - 1) \div 2
             cmp == TupleLt(At(heap, pos), At(heap, parentpos))
         IN IF cmp = "raise" THEN [heap |-> heap, raised |-> TRUE]
            ELSE IF cmp = "false" THEN [heap |-> heap, raised |-> FALSE]
            ELSE siftdown(Swap(heap, pos, parentpos), startpos, parentpos)

\* heapq's siftup: the smaller child moves up until a leaf is reached, then
\* siftdown from there
RECURSIVE siftup(_, _, _)
siftup(heap, startpos, pos) ==
    IF pos >= Len(heap) \div 2
    THEN siftdown(heap, startpos, pos)
    ELSE LET childpos == 2 * pos + 1
             cmp == IF childpos + 1 < Len(heap)
                    THEN TupleLt(At(heap, childpos), At(heap, childpos + 1))
                    ELSE "true"
             smaller == IF cmp = "true" THEN childpos ELSE childpos + 1
         IN IF cmp = "raise" THEN [heap |-> heap, raised |-> TRUE]
            ELSE siftup(Swap(heap, smaller, pos), startpos, smaller)

\* PriorityQueue._put: heappush(self.queue, item)
heappush(heap, item) == siftdown(Append(heap, item), 0, Len(heap))

\* PriorityQueue._get: heappop(self.queue).  The last item replaces the
\* root; when siftup raises the former root is returned to nobody.
heappop(heap) ==
    LET lastelt == heap[Len(heap)]
        rest == SubSeq(heap, 1, Len(heap) - 1)
    IN IF rest = <<>>
       THEN [heap |-> rest, raised |-> FALSE, item |-> lastelt]
       ELSE LET sifted == siftup([rest EXCEPT ![1] = lastelt], 0, 0)
            IN [heap |-> sifted.heap, raised |-> sifted.raised,
                item |-> IF sifted.raised THEN NoFrame ELSE rest[1]]

\* mutant of Eligible: every frame goes to detection
Eligible_EveryFrame(frame_count) == TRUE

\* "if self.frame_count % self.config.skip_frames == 0:"
Eligible(frame_count) == frame_count % skip_frames = 0

\* "while not self.stop_event.is_set()" fails: cap.release(), the thread ends
Exited(r) == [r EXCEPT !.pc = "stopped", !.packet = NoFrame, !.released = TRUE]

\* CameraReader.run, one turn of the loop up to the put: cap.read() fails
\* (warning, sleep, continue) or returns a frame, which is counted and on
\* every skip_frames-th frame, after the qsize() check (its 100 is the
\* default max_queue_size), wrapped in a FramePacket.  failures and eligible
\* are history: the failed reads in a row, and for each frame read whether it
\* was due for detection.  With the stop event set this is the read that was
\* under way when the event was set, and the loop ends after the turn.
read_frame(c, ret) ==
    /\ reader[c].pc = "read"
    /\ IF ret
       THEN reader[c].frame_count < MaxFrames * skip_frames
       ELSE reader[c].failures < max_consecutive_failures
    /\ LET frame_count == reader[c].frame_count + 1
           counted == [reader[c] EXCEPT
                          !.frame_count = frame_count,
                          !.failures = 0,
                          !.eligible = Append(@, Eligible(frame_count))]
       IN IF ~ret
          THEN /\ reader' = [reader EXCEPT ![c] =
                      IF reader[c].stop_event
                      THEN Exited([reader[c] EXCEPT !.failures = @ + 1])
                      ELSE [reader[c] EXCEPT !.failures = @ + 1]]
               /\ UNCHANGED now
          ELSE IF Eligible(frame_count) /\ Len(frame_queue) < max_queue_size
          THEN /\ reader' = [reader EXCEPT ![c] =
                      [counted EXCEPT
                          !.pc = "put",
                          !.packet = [priority |-> camera_priority(c),
                                      timestamp |-> now, camera_id |-> c,
                                      frame_number |-> frame_count]]]
               /\ now' = now + 1
          ELSE /\ reader' = [reader EXCEPT ![c] =
                      IF reader[c].stop_event THEN Exited(counted) ELSE counted]
               /\ UNCHANGED now
    /\ UNCHANGED <<frame_queue, served, processing, PipelineVars>>
    /\ AlertFrame

\* "self.frame_queue.put((packet.priority.value, packet))": Queue.put waits
\* on not_full while the queue holds maxsize items; an exception of the
\* heappush is caught by run's "except Exception"; then the loop's condition
frame_queue_put(c) ==
    /\ reader[c].pc = "put"
    /\ Len(frame_queue) < max_queue_size
    /\ frame_queue' = heappush(frame_queue, reader[c].packet).heap
    /\ reader' = [reader EXCEPT ![c] =
           IF reader[c].stop_event
           THEN Exited(reader[c])
           ELSE [reader[c] EXCEPT !.pc = "read", !.packet = NoFrame]]
    /\ UNCHANGED <<now, served, processing, PipelineVars>>
    /\ AlertFrame

\* MultiCameraProcessor.remove_camera: stop event, "join(timeout=2.0)", then
\* the entries of the camera are deleted.  The join blocks the event loop,
\* and with it the processing loop, for up to 2 seconds.  A reader between
\* reads ends within that time, and so does one that finds room for its put;
\* a reader waiting in put on a full queue, or in a cap.read() that stalls,
\* outlives the join.
remove_camera(c, stalled) ==
    /\ reader[c].registered
    /\ reader[c].pc = "put" => ~stalled
    /\ LET r == [reader[c] EXCEPT !.stop_event = TRUE, !.registered = FALSE]
       IN IF reader[c].pc = "put"
          THEN IF Len(frame_queue) < max_queue_size
               THEN /\ frame_queue' = heappush(frame_queue, r.packet).heap
                    /\ reader' = [reader EXCEPT ![c] = Exited(r)]
               ELSE /\ reader' = [reader EXCEPT ![c] = r]
                    /\ UNCHANGED frame_queue
          ELSE /\ reader' = [reader EXCEPT ![c] = IF stalled THEN r ELSE Exited(r)]
               /\ UNCHANGED frame_queue
    /\ UNCHANGED <<now, served, processing, PipelineVars>>
    /\ AlertFrame

\* _processing_loop: "priority, packet = self.frame_queue.get(timeout=0.1)";
\* an exception of the heappop is caught by the loop's "except Exception";
\* with a packet the loop goes on to "await self._process_frame(packet)"
processing_loop ==
    /\ processing.pc = "get"
    /\ frame_queue # <<>>
    /\ frame_queue' = heappop(frame_queue).heap
    /\ served' = [before |-> frame_queue,
                  packet |-> heappop(frame_queue).item,
                  raised |-> heappop(frame_queue).raised]
    /\ processing' = IF heappop(frame_queue).raised
                     THEN processing
                     ELSE [pc |-> "detect", packet |-> heappop(frame_queue).item,
                           detector |-> "running", result |-> "none", sinks |-> {}]
    /\ UNCHANGED <<now, reader, PipelineVars>>
    /\ AlertFrame

\* the sink _processing_loop calls first with a result: on_detection when
\* the result has detections ("if result.detections:"), else on_frame
FirstSink(result) == IF result = "detections" THEN "on_detection" ELSE "on_frame"

\* _process_frame: the detector returns from the executor or raises there.
\* "except Exception as e: ... return None", and "if result:" in the loop
\* skips everything for None; with a DetectionResult the first sink is called
process_frame(raises, detections) ==
    /\ processing.pc = "detect"
    /\ processing' =
          IF raises
          THEN [processing EXCEPT !.pc = "get", !.detector = "raised",
                                  !.result = "none"]
          ELSE [processing EXCEPT !.pc = FirstSink(detections),
                                  !.detector = "returned",
                                  !.result = detections,
                                  !.sinks = {FirstSink(detections)}]
    /\ UNCHANGED <<now, frame_queue, reader, served, PipelineVars>>
    /\ AlertFrame

\* the sink called after one that returned: on_detection, then _check_alert
\* (on_alert), then on_frame
NextSink(sink) ==
    IF sink = "on_detection" THEN "check_alert"
    ELSE IF sink = "check_alert" THEN "on_frame"
    ELSE "get"

\* "await self.on_detection(...)", "await self._check_alert(...)" or
\* "await self.on_frame(...)" returns or raises: the loop has one
\* "except Exception" around its whole body, which ends the work on this
\* result
sink_returns(raised) ==
    /\ processing.pc \in {"on_detection", "check_alert", "on_frame"}
    /\ processing' =
          IF raised \/ NextSink(processing.pc) = "get"
          THEN [processing EXCEPT !.pc = "get"]
          ELSE [processing EXCEPT !.pc = NextSink(processing.pc),
                                  !.sinks = @ \cup {NextSink(processing.pc)}]
    /\ UNCHANGED <<now, frame_queue, reader, served, PipelineVars>>
    /\ AlertFrame

\* the readers, the processing loop and remove_camera; every read returns
\* a frame
MultiCameraNext ==
    \/ \E c \in PipelineCameras : read_frame(c, TRUE)
    \/ \E c \in PipelineCameras : frame_queue_put(c)
    \/ \E c \in PipelineCameras, stalled \in BOOLEAN : remove_camera(c, stalled)
    \/ processing_loop
    \/ \E raises \in BOOLEAN, detections \in {"detections", "empty"} :
          process_frame(raises, detections)
    \/ \E raised \in BOOLEAN : sink_returns(raised)

MultiCameraSpec == Init /\ [][MultiCameraNext]_vars

\* the reader threads on their own, with reads that fail
ReaderNext ==
    \/ \E c \in PipelineCameras, ret \in BOOLEAN : read_frame(c, ret)
    \/ \E c \in PipelineCameras : frame_queue_put(c)

ReaderSpec == Init /\ [][ReaderNext]_vars

\* ------------------------------------------------ stream.py: live stream
\* A frame is the scene it shows; two frames differ by more than the
\* threshold when their scenes differ.
Scenes == {"still", "moved"}

StreamTicks == {STALE_AFTER + 1, CACHE_CLEANUP_INTERVAL + 1}

\* detect_motion: the first frame of a camera is stored and counts as motion;
\* afterwards the frame is compared with the stored one and replaces it
detect_motion(camera_id, frame) ==
    IF camera_id \notin DOMAIN motion_cache
    THEN TRUE
    ELSE motion_cache[camera_id].gray # frame

\* process_frame_with_detection, lines 519-531: has_motion is True on a frame
\* that is not checked; "if not has_motion and last_detections: detect =
\* False"; then "if detect and has_motion and detector.is_loaded" (the
\* detector is loaded)
RunsDetection(detect, has_motion, last_detections) ==
    LET still_detect == IF detect /\ ~has_motion /\ last_detections
                        THEN FALSE ELSE detect
    IN  still_detect /\ has_motion

\* cleanup_stale_caches: the cameras it finds stale are those of _frame_cache
stale_cameras(current_time) ==
    {cam_id \in DOMAIN frame_cache :
        current_time - frame_cache[cam_id].timestamp > STALE_AFTER}

Without(dict, keys) == [k \in DOMAIN dict \ keys |-> dict[k]]

\* a request opens the camera and the generator enters its loop
generate_video_frames_with_detection(c) ==
    /\ stream[c].pc = "idle"
    /\ stream' = [stream EXCEPT ![c].pc = "open"]
    /\ UNCHANGED <<now, motion_cache, frame_cache, last_cleanup,
                   PipelineVars, MultiCameraVars>>
    /\ UNCHANGED <<events, incidents, alerts, cameras,
                   simulation_alert_cooldown, simulation_alert_count, task,
                   nextAlert, broadcasts, notifications, swept, absorbed,
                   capped, handled, LifecycleVars, ServiceVars>>

\* one turn of the loop: process_frame_with_detection on the next frame
\* (the motion check, the detection, the cache sweep), then the generator's
\* own bookkeeping
process_frame_with_detection(c, ret, frame, found) ==
    /\ stream[c].pc = "open"
    /\ stream[c].consecutive_failures < max_consecutive_failures
    /\ stream[c].frame_count < MaxStreamFrames
    /\ LET should_detect == stream[c].frame_count % detection_interval = 0
           last_detections == stream[c].last_detections
           has_motion == IF should_detect THEN detect_motion(c, frame) ELSE TRUE
           detected == RunsDetection(should_detect, has_motion, last_detections)
           detections == IF detected THEN found ELSE last_detections
           checked == IF should_detect
                      THEN [k \in DOMAIN motion_cache \cup {c} |->
                              IF k = c THEN [gray |-> frame, at |-> now]
                              ELSE motion_cache[k]]
                      ELSE motion_cache
           sweeps == now - last_cleanup >= CACHE_CLEANUP_INTERVAL
           stale == stale_cameras(now)
       IN  IF ~ret
           THEN /\ stream' = [stream EXCEPT
                     ![c].consecutive_failures = @ + 1]
                /\ UNCHANGED <<motion_cache, frame_cache, last_cleanup>>
           ELSE /\ stream' = [stream EXCEPT
                     ![c].consecutive_failures = 0,
                     ![c].frame_count = @ + 1,
                     ![c].last_detections = IF detections THEN TRUE ELSE @,
                     ![c].should_detect = should_detect,
                     ![c].has_motion = has_motion,
                     ![c].had_detections = last_detections,
                     ![c].detected = detected,
                     ![c].latest = IF detected THEN found ELSE @]
                /\ motion_cache' = IF sweeps THEN Without(checked, stale)
                                   ELSE checked
                /\ frame_cache' = IF sweeps THEN Without(frame_cache, stale)
                                  ELSE frame_cache
                /\ last_cleanup' = IF sweeps THEN now ELSE last_cleanup
    /\ UNCHANGED <<now, PipelineVars, MultiCameraVars>>
    /\ UNCHANGED <<events, incidents, alerts, cameras,
                   simulation_alert_cooldown, simulation_alert_count, task,
                   nextAlert, broadcasts, notifications, swept, absorbed,
                   capped, handled, LifecycleVars, ServiceVars>>

\* the client goes away: the generator is cancelled and releases the camera
stream_closed(c) ==
    /\ stream[c].pc = "open"
    /\ stream' = [stream EXCEPT ![c].pc = "closed"]
    /\ UNCHANGED <<now, motion_cache, frame_cache, last_cleanup,
                   PipelineVars, MultiCameraVars>>
    /\ UNCHANGED <<events, incidents, alerts, cameras,
                   simulation_alert_cooldown, simulation_alert_count, task,
                   nextAlert, broadcasts, notifications, swept, absorbed,
                   capped, handled, LifecycleVars, ServiceVars>>

StreamTick(d) ==
    /\ now + d <= StartTime + MaxStreamClock
    /\ now' = now + d
    /\ UNCHANGED <<StreamVars, PipelineVars, MultiCameraVars>>
    /\ UNCHANGED <<events, incidents, alerts, cameras,
                   simulation_alert_cooldown, simulation_alert_count, task,
                   nextAlert, broadcasts, notifications, swept, absorbed,
                   capped, handled, LifecycleVars, ServiceVars>>

\* the live streams of the cameras; every read returns a frame
StreamNext ==
    \/ \E c \in PipelineCameras : generate_video_frames_with_detection(c)
    \/ \E c \in PipelineCameras, frame \in Scenes, found \in BOOLEAN :
          process_frame_with_detection(c, TRUE, frame, found)
    \/ \E c \in PipelineCameras : stream_closed(c)
    \/ \E d \in StreamTicks : StreamTick(d)

StreamSpec == Init /\ [][StreamNext]_vars

\* ------------------------------- detection_pipeline.py: the life cycle
\* everything but the pipeline object, its tasks, the queue and the clock
LifecycleFrame ==
    /\ UNCHANGED <<capture, worker, delivered, MultiCameraVars, StreamVars,
                   ServiceVars>>
    /\ UNCHANGED <<events, incidents, alerts, cameras,
                   simulation_alert_cooldown, simulation_alert_count, task,
                   nextAlert, broadcasts, notifications, swept, absorbed,
                   capped, handled>>

TaskIds == 1..Len(asyncio_tasks)

\* the tasks that have not finished
Alive(kind) ==
    {i \in TaskIds : asyncio_tasks[i].kind = kind /\ asyncio_tasks[i].pc # "done"}

CaptureLoops(camera_id) ==
    {i \in Alive("capture") : asyncio_tasks[i].camera_id = camera_id}

\* the workers inside "await self._detector.detect(...)"
InProgress == {i \in Alive("worker") : asyncio_tasks[i].pc = "detect"}

WorkerTask ==
    [kind |-> "worker", camera_id |-> "", pc |-> "get", frames |-> 0,
     timestamp |-> 0]

\* a capture task stands at the top of its loop ("loop"), in "await
\* self._fetch_frame(...)" ("fetch") or in "await self._task_queue.put(...)"
\* on a full queue ("put", with the timestamp of the FrameTask it holds)
CaptureTask(camera_id) ==
    [kind |-> "capture", camera_id |-> camera_id, pc |-> "loop", frames |-> 0,
     timestamp |-> 0]

Cancel(tasks, ids) ==
    [i \in DOMAIN tasks |->
        IF i \in ids THEN [tasks[i] EXCEPT !.pc = "done"] ELSE tasks[i]]

\* a variant of start that goes on when the pipeline is already running
StartReturnsEarly_Never(running) == FALSE

\* start: "if self._running: return"
StartReturnsEarly(running) == running

\* start: _running = True, then num_workers worker tasks, appended to
\* _workers; get_detector() returns without suspending
DetectionPipeline_start ==
    /\ pipeline.start_calls < MaxStarts
    /\ IF StartReturnsEarly(pipeline.running)
       THEN /\ pipeline' = [pipeline EXCEPT !.start_calls = @ + 1]
            /\ UNCHANGED asyncio_tasks
       ELSE /\ Len(asyncio_tasks) + num_workers <= MaxAsyncTasks
            /\ asyncio_tasks' = asyncio_tasks \o [i \in Workers |-> WorkerTask]
            /\ pipeline' = [pipeline EXCEPT
                   !.running = TRUE,
                   !.workers = @ \cup {Len(asyncio_tasks) + i : i \in Workers},
                   !.start_calls = @ + 1]
    /\ UNCHANGED <<now, task_queue>>
    /\ LifecycleFrame

\* stop: _running = False, every worker of _workers is cancelled and awaited
\* (a cancelled worker leaves its loop at the await it stands at), and the
\* list is cleared; the shutdown alone awaits stop
DetectionPipeline_stop ==
    /\ pipeline.running
    /\ pipeline' = [pipeline EXCEPT !.running = FALSE, !.workers = {}]
    /\ asyncio_tasks' = Cancel(asyncio_tasks, pipeline.workers)
    /\ UNCHANGED <<now, task_queue>>
    /\ LifecycleFrame

\* add_camera: the entry of _active_cameras is written (over the one that is
\* there, if any) and a capture task is created
DetectionPipeline_add_camera(camera_id) ==
    /\ Len(asyncio_tasks) < MaxAsyncTasks
    /\ asyncio_tasks' = Append(asyncio_tasks, CaptureTask(camera_id))
    /\ pipeline' = [pipeline EXCEPT !.active_cameras =
           [k \in DOMAIN @ \cup {camera_id} |->
               IF k = camera_id THEN Len(asyncio_tasks) + 1 ELSE @[k]]]
    /\ UNCHANGED <<now, task_queue>>
    /\ LifecycleFrame

\* remove_camera: the task of the entry is cancelled, the entry deleted
DetectionPipeline_remove_camera(camera_id) ==
    /\ camera_id \in DOMAIN pipeline.active_cameras
    /\ asyncio_tasks' =
           Cancel(asyncio_tasks, {pipeline.active_cameras[camera_id]})
    /\ pipeline' = [pipeline EXCEPT !.active_cameras =
           [k \in DOMAIN @ \ {camera_id} |-> @[k]]]
    /\ UNCHANGED <<now, task_queue>>
    /\ LifecycleFrame

\* "while self._running and camera_id in self._active_cameras"
CaptureLoopGoesOn(i) ==
    /\ pipeline.running
    /\ asyncio_tasks[i].camera_id \in DOMAIN pipeline.active_cameras

\* a capture task passes its loop condition and awaits _fetch_frame
capture_task_turn(i) ==
    /\ i \in Alive("capture")
    /\ asyncio_tasks[i].pc = "loop"
    /\ CaptureLoopGoesOn(i)
    /\ asyncio_tasks[i].frames < MaxFrames
    /\ asyncio_tasks' = [asyncio_tasks EXCEPT ![i].pc = "fetch"]
    /\ UNCHANGED <<now, task_queue, pipeline>>
    /\ LifecycleFrame

\* the FrameTask of a capture task
CaptureFrameTask(i, timestamp) ==
    [priority |-> camera_priority(asyncio_tasks[i].camera_id),
     timestamp |-> timestamp, camera_id |-> asyncio_tasks[i].camera_id,
     frame_number |-> asyncio_tasks[i].frames + 1]

\* _fetch_frame returns a frame: the FrameTask is made and put on the queue,
\* or the task waits in the put while the queue is full
capture_task_fetched(i) ==
    /\ i \in Alive("capture")
    /\ asyncio_tasks[i].pc = "fetch"
    /\ IF Full
       THEN /\ asyncio_tasks' = [asyncio_tasks EXCEPT ![i].pc = "put",
                                                      ![i].timestamp = now]
            /\ UNCHANGED task_queue
       ELSE /\ task_queue' = task_queue \cup {CaptureFrameTask(i, now)}
            /\ asyncio_tasks' = [asyncio_tasks EXCEPT ![i].pc = "loop",
                                                      ![i].frames = @ + 1]
    /\ now' = now + 1
    /\ UNCHANGED pipeline
    /\ LifecycleFrame

\* a capture task waiting in the put is resumed once the queue has room
capture_task_put(i) ==
    /\ i \in Alive("capture")
    /\ asyncio_tasks[i].pc = "put"
    /\ ~Full
    /\ task_queue' = task_queue \cup
           {CaptureFrameTask(i, asyncio_tasks[i].timestamp)}
    /\ asyncio_tasks' = [asyncio_tasks EXCEPT ![i].pc = "loop",
                                              ![i].frames = @ + 1,
                                              ![i].timestamp = 0]
    /\ UNCHANGED <<now, pipeline>>
    /\ LifecycleFrame

\* the loop condition fails and the capture task returns
capture_task_returns(i) ==
    /\ i \in Alive("capture")
    /\ asyncio_tasks[i].pc = "loop"
    /\ ~CaptureLoopGoesOn(i)
    /\ asyncio_tasks' = [asyncio_tasks EXCEPT ![i].pc = "done"]
    /\ UNCHANGED <<now, task_queue, pipeline>>
    /\ LifecycleFrame

\* a worker task gets the least entry and calls the detector
worker_task_get(i) ==
    /\ i \in Alive("worker")
    /\ asyncio_tasks[i].pc = "get"
    /\ task_queue # {}
    /\ task_queue' = task_queue \ {LeastEntry}
    /\ asyncio_tasks' = [asyncio_tasks EXCEPT ![i].pc = "detect"]
    /\ UNCHANGED <<now, pipeline>>
    /\ LifecycleFrame

\* the detector returns, the result is broadcast, the worker loops
worker_task_done(i) ==
    /\ i \in InProgress
    /\ asyncio_tasks' = [asyncio_tasks EXCEPT ![i].pc = "get"]
    /\ UNCHANGED <<now, task_queue, pipeline>>
    /\ LifecycleFrame

LifecycleNext ==
    \/ DetectionPipeline_start
    \/ DetectionPipeline_stop
    \/ \E c \in PipelineCameras : DetectionPipeline_add_camera(c)
    \/ \E c \in PipelineCameras : DetectionPipeline_remove_camera(c)
    \/ \E i \in TaskIds : capture_task_turn(i)
    \/ \E i \in TaskIds : capture_task_fetched(i)
    \/ \E i \in TaskIds : capture_task_put(i)
    \/ \E i \in TaskIds : capture_task_returns(i)
    \/ \E i \in TaskIds : worker_task_get(i)
    \/ \E i \in TaskIds : worker_task_done(i)

LifecycleSpec == Init /\ [][LifecycleNext]_vars

\* ----------------------------- detection_pipeline.py: FrameBuffer
\* the alert engine, the pipelines, the live stream and the life cycle
Elsewhere == <<now, events, incidents, alerts, cameras,
               simulation_alert_cooldown, simulation_alert_count,
               task, nextAlert, broadcasts, notifications, swept, absorbed,
               capped, handled, PipelineVars, MultiCameraVars, StreamVars,
               LifecycleVars>>

\* FrameTask.compute_hash: the md5 of the shrunk grey frame
FrameHashes == {"h1", "h2"}

\* a variant that skips every frame equal to the last one
SkipLimitReached_Never(skip_count) == FALSE

\* "if self._skip_count[camera_id] < 10: return True", negated
SkipLimitReached(skip_count) == skip_count >= MAX_CONSECUTIVE_SKIPS

\* FrameBuffer.should_skip(camera_id, frame_hash)
should_skip(camera_id, frame_hash) ==
    LET known == camera_id \in DOMAIN frame_buffer.last_hash
        same == known /\ frame_buffer.last_hash[camera_id] = frame_hash
        counted == IF same THEN frame_buffer.skip_count[camera_id] + 1 ELSE 0
        skip == same /\ ~SkipLimitReached(counted)
    IN  /\ frame_buffer' =
              [last_hash |-> IF skip THEN frame_buffer.last_hash
                             ELSE Put(frame_buffer.last_hash, camera_id, frame_hash),
               skip_count |-> Put(frame_buffer.skip_count, camera_id,
                                  IF skip THEN counted ELSE 0),
               run |-> [frame_buffer.run EXCEPT ![camera_id] =
                           IF skip THEN @ + 1 ELSE 0],
               call |-> [camera_id |-> camera_id, frame_hash |-> frame_hash,
                         known |-> known, same |-> same, skip |-> skip]]
        /\ UNCHANGED <<Elsewhere, CheckAlertVars, RegistryVars, CameraManagerVars>>

FrameBufferNext ==
    \E c \in PipelineCameras, h \in FrameHashes : should_skip(c, h)

FrameBufferSpec == Init /\ [][FrameBufferNext]_vars

\* ------------------------------------- multi_camera.py: _check_alert
\* the detections of a result, each by its severity
Severities == {"critical", "high"}

DetectionLists ==
    {<<a>> : a \in Severities} \cup {<<a, b>> : a \in Severities, b \in Severities}

\* "for det in result.detections: if det.get('severity') == 'critical'":
\* every critical detection of the result sets last_alert_time and calls
\* on_alert
CriticalOf(detections) ==
    SelectSeq(detections, LAMBDA severity : severity = "critical")

\* _check_alert(camera_id, result), called for a result with detections
check_alert(camera_id, detections) ==
    LET camera_state == camera_states[camera_id]
        current_time == now
        critical == CriticalOf(detections)
    IN  /\ IF ~camera_state.alert_on_detection
           THEN UNCHANGED CheckAlertVars
           ELSE IF current_time - camera_state.last_alert_time < min_alert_interval
           THEN UNCHANGED CheckAlertVars
           ELSE IF critical = <<>>
           THEN UNCHANGED CheckAlertVars
           ELSE /\ camera_states' = [camera_states EXCEPT
                       ![camera_id].last_alert_time = current_time]
                /\ on_alert_calls' = [on_alert_calls EXCEPT ![camera_id] =
                       @ \o [i \in 1..Len(critical) |->
                               [time |-> current_time, severity |-> critical[i]]]]
        /\ UNCHANGED <<Elsewhere, FrameBufferVars, RegistryVars,
                       CameraManagerVars>>

CheckAlertTick(d) ==
    /\ now + d <= StartTime + MaxAlertClock
    /\ now' = now + d
    /\ UNCHANGED <<events, incidents, alerts, cameras,
                   simulation_alert_cooldown, simulation_alert_count,
                   task, nextAlert, broadcasts, notifications, swept, absorbed,
                   capped, handled, PipelineVars, MultiCameraVars, StreamVars,
                   LifecycleVars, ServiceVars>>

CheckAlertNext ==
    \/ \E c \in PipelineCameras, detections \in DetectionLists :
          check_alert(c, detections)
    \/ \E d \in {1, min_alert_interval} : CheckAlertTick(d)

CheckAlertSpec == Init /\ [][CheckAlertNext]_vars

\* ------------------------------------- multi_camera.py: the registry
RegistryIds == {"cam1", "cam2", "cam3", "cam4"}

\* a variant of add_camera without the capacity test
AtCapacity_Never(count) == FALSE

\* "if len(self.cameras) >= self.max_cameras"
AtCapacity(count) == count >= max_cameras

\* MultiCameraProcessor.add_camera(config): no await between its statements
MultiCameraProcessor_add_camera(camera_id) ==
    /\ IF camera_id \in registry.cameras \/ AtCapacity(Cardinality(registry.cameras))
       THEN /\ registry_call' = [op |-> "add_camera", camera_id |-> camera_id,
                                 returned |-> FALSE]
            /\ UNCHANGED registry
       ELSE /\ registry' = [cameras |-> registry.cameras \cup {camera_id},
                            readers |-> registry.readers \cup {camera_id},
                            stop_events |-> registry.stop_events \cup {camera_id}]
            /\ registry_call' = [op |-> "add_camera", camera_id |-> camera_id,
                                 returned |-> TRUE]
    /\ UNCHANGED <<Elsewhere, FrameBufferVars, CheckAlertVars,
                   CameraManagerVars>>

\* MultiCameraProcessor.remove_camera(camera_id): the join blocks the event
\* loop, nothing runs between its statements
MultiCameraProcessor_remove_camera(camera_id) ==
    /\ IF camera_id \notin registry.cameras
       THEN /\ registry_call' = [op |-> "remove_camera", camera_id |-> camera_id,
                                 returned |-> FALSE]
            /\ UNCHANGED registry
       ELSE /\ registry' = [cameras |-> registry.cameras \ {camera_id},
                            readers |-> registry.readers \ {camera_id},
                            stop_events |-> registry.stop_events \ {camera_id}]
            /\ registry_call' = [op |-> "remove_camera", camera_id |-> camera_id,
                                 returned |-> TRUE]
    /\ UNCHANGED <<Elsewhere, FrameBufferVars, CheckAlertVars,
                   CameraManagerVars>>

RegistryNext ==
    \/ \E c \in RegistryIds : MultiCameraProcessor_add_camera(c)
    \/ \E c \in RegistryIds : MultiCameraProcessor_remove_camera(c)

RegistrySpec == Init /\ [][RegistryNext]_vars

\* ------------------------------------------- alerts.py: delete_alert
\* delete_alert(alert_id): 404 when there is no such row, else the row is
\* deleted and the session committed
delete_alert(alert_id) ==
    /\ events < MaxEvents
    /\ events' = events + 1
    /\ alerts' = SelectSeq(alerts, LAMBDA alert : alert.id # alert_id)
    /\ UNCHANGED <<now, incidents, cameras, simulation_alert_cooldown,
                   simulation_alert_count, task, nextAlert, broadcasts,
                   notifications, swept, absorbed, capped>>

\* the alert engine with the alerts router's delete, handlers one at a time
DeleteNext ==
    /\ \/ Requests
       \/ \E t \in Tasks : commit_alert(t)
       \/ \E alert_id \in 1..MaxEvents : delete_alert(alert_id)
    /\ \A t \in Tasks \ {1} : task'[t].pc = "idle"
    /\ UNCHANGED <<handled, PipelineVars, MultiCameraVars, StreamVars,
                   LifecycleVars, ServiceVars>>

DeleteSpec == Init /\ [][DeleteNext]_vars

\* ---------------------------- stream.py: get_simulation_alerts_status
\* "time.time() - last_alert if last_alert > 0 else None"
time_since_last(last_alert, current_time) ==
    IF last_alert > 0 THEN current_time - last_alert ELSE None

\* the can_alert entry of a camera of _simulation_alert_count
can_alert(count, last_alert, current_time) ==
    LET since == time_since_last(last_alert, current_time)
    IN  /\ count < MAX_ALERTS_PER_CAMERA
        /\ \/ since = None
           \/ since >= SIMULATION_ALERT_INTERVAL

\* create_simulation_alert would go past its two throttle tests
WouldAccept(camera_id, current_time) ==
    /\ ~AtCap(Get(simulation_alert_count, camera_id, 0))
    /\ ~InCooldown(current_time, Get(simulation_alert_cooldown, camera_id, 0))

\* ------------------------------------------------ camera_manager.py
\* CameraConnection.is_connected
is_connected(camera) == camera.status = "online" /\ camera.capture # 0

\* connect_camera: cv2.VideoCapture(url); a capture that did not open holds
\* nothing and sets status "error"; one that opened is assigned to
\* camera.capture, and the capture object that was there, no longer
\* referenced, is released by its destructor
connect_camera(camera, isOpened) ==
    IF ~isOpened
    THEN [camera EXCEPT !.status = "error"]
    ELSE [camera EXCEPT !.status = "online",
                        !.capture = camera.opened + 1,
                        !.open = (@ \ {camera.capture}) \cup {camera.opened + 1},
                        !.opened = @ + 1,
                        !.reconnect_attempts = 0]

\* start_streaming: connects if need be and creates the _stream_loop task
start_streaming(c, isOpened) ==
    /\ camera_manager[c].pc = "none"
    /\ LET camera == camera_manager[c]
           connected == IF is_connected(camera) THEN camera
                        ELSE connect_camera(camera, isOpened)
       IN  camera_manager' = [camera_manager EXCEPT ![c] =
               IF is_connected(connected)
               THEN [connected EXCEPT !.pc = "loop"]
               ELSE connected]
    /\ camera_manager[c].opened < MaxCaptures
    /\ UNCHANGED <<Elsewhere, FrameBufferVars, CheckAlertVars, RegistryVars>>

\* a turn of _stream_loop on a connected camera: get_frame; a failed read
\* sets status "error" and leaves the capture where it is
get_frame(c, ret) ==
    /\ camera_manager[c].pc = "loop"
    /\ is_connected(camera_manager[c])
    /\ camera_manager' = [camera_manager EXCEPT ![c] =
           IF ret THEN [@ EXCEPT !.last_frame = TRUE]
           ELSE [@ EXCEPT !.status = "error"]]
    /\ UNCHANGED <<Elsewhere, FrameBufferVars, CheckAlertVars, RegistryVars>>

\* a turn of _stream_loop on a camera that is not connected: one more
\* reconnect attempt, or the loop ends
stream_loop_reconnect(c, isOpened) ==
    /\ camera_manager[c].pc = "loop"
    /\ ~is_connected(camera_manager[c])
    /\ LET camera == camera_manager[c]
       IN  IF camera.reconnect_attempts < max_reconnect_attempts
           THEN /\ isOpened => camera.opened < MaxCaptures
                /\ camera_manager' = [camera_manager EXCEPT ![c] =
                       connect_camera(
                           [camera EXCEPT !.reconnect_attempts = @ + 1],
                           isOpened)]
           ELSE camera_manager' = [camera_manager EXCEPT ![c].pc = "exited"]
    /\ UNCHANGED <<Elsewhere, FrameBufferVars, CheckAlertVars, RegistryVars>>

CameraManagerNext ==
    \/ \E c \in PipelineCameras, isOpened \in BOOLEAN : start_streaming(c, isOpened)
    \/ \E c \in PipelineCameras, ret \in BOOLEAN : get_frame(c, ret)
    \/ \E c \in PipelineCameras, isOpened \in BOOLEAN :
          stream_loop_reconnect(c, isOpened)

CameraManagerSpec == Init /\ [][CameraManagerNext]_vars

\* ================================================================ claims

SamePair(i, j) ==
    /\ i # j
    /\ incidents[i].camera_id = incidents[j].camera_id
    /\ incidents[i].primary_weapon_type = incidents[j].primary_weapon_type

\* C1: after any sequence of detections, sweeps, reviews and closes run one
\* after another, with the clock advancing between them, no two incidents of
\* one (camera_id, primary_weapon_type) pair are Active together.
C1_AtMostOneActivePerPair ==
    \A i, j \in IncidentIds :
        SamePair(i, j) =>
            ~(incidents[i].status = "ACTIVE" /\ incidents[j].status = "ACTIVE")

\* C2: once the concurrently running detection handlers of a burst have all
\* returned, at most one Active incident row exists for each pair.
C2_SerializedMatchOrCreate ==
    (\A t \in Tasks : task[t].pc = "idle") =>
        \A i \in IncidentIds :
            incidents[i].status = "ACTIVE" =>
                Cardinality({j \in IncidentIds :
                    /\ incidents[j].camera_id = incidents[i].camera_id
                    /\ incidents[j].primary_weapon_type = incidents[i].primary_weapon_type
                    /\ incidents[j].status = "ACTIVE"}) <= 1

\* C3: in every reachable state every incident has ended_at set if and only
\* if its status is not Active.
C3_EndedIffNotActive ==
    \A i \in IncidentIds :
        (incidents[i].ended_at # None) <=> (incidents[i].status # "ACTIVE")

C3_Witness ==
    \E i, j \in IncidentIds :
        /\ incidents[i].status \in {"REVIEWED", "CONFIRMED", "FALSE_ALARM"}
        /\ incidents[i].ended_at # None
        /\ incidents[j].status = "ACTIVE"
        /\ incidents[j].detection_count >= 2

\* C4: the query step of get_or_create_incident hands back an existing
\* incident (is_new = false) exactly when some incident has the detection's
\* camera and weapon, status Active and last_detection_at >= now - 5 minutes;
\* in every other case it goes on to create a new Active incident.
C4_ExistingExactlyWhenMatch ==
    [][\A t \in Tasks :
          (task[t].pc = "find" /\ task'[t] # task[t]) =>
              LET matching == {i \in IncidentIds :
                      /\ incidents[i].camera_id = db_camera_id(task[t].camera_id)
                      /\ incidents[i].primary_weapon_type =
                             CLASS_NAME_TO_WEAPON_TYPE(task[t].class_name)
                      /\ incidents[i].status = "ACTIVE"
                      /\ incidents[i].last_detection_at >=
                             now - INCIDENT_TIMEOUT_MINUTES * 60}
              IN IF matching # {}
                 THEN /\ task'[t].pc = "commit"
                      /\ ~task'[t].is_new_incident
                      /\ task'[t].incident_id \in matching
                 ELSE /\ task'[t].pc = "flush"
                      /\ task'[t].is_new_incident]_vars

\* C8: one run of the stale-incident sweep closes, with ended_at = now, every
\* incident that is Active with last_detection_at < now - 5 minutes and
\* leaves every other incident as it was.
C8_SweepFrame ==
    [][auto_close_stale_incidents =>
          /\ Len(incidents') = Len(incidents)
          /\ \A i \in IncidentIds :
                IF /\ incidents[i].status = "ACTIVE"
                   /\ incidents[i].last_detection_at <
                          now - INCIDENT_TIMEOUT_MINUTES * 60
                THEN incidents'[i] = [incidents[i] EXCEPT !.status = "CLOSED",
                                                          !.ended_at = now]
                ELSE incidents'[i] = incidents[i]]_vars

C8_Witness ==
    /\ swept # <<>>
    /\ swept[Len(swept)] = now
    /\ \E i, j \in IncidentIds :
          /\ incidents[i].status = "CLOSED"
          /\ incidents[i].ended_at = now
          /\ incidents[i].last_detection_at < now - TimeoutSeconds
          /\ incidents[j].status = "ACTIVE"

C10_SecondSweepClosesNothingAgain ==
    [][(swept # <<>> /\ auto_close_stale_incidents) =>
          /\ now = swept[Len(swept)] => incidents' = incidents
          /\ \A i \in IncidentIds :
                \/ incidents'[i] = incidents[i]
                \/ /\ incidents[i].status = "ACTIVE"
                   /\ incidents[i].last_detection_at >=
                          swept[Len(swept)] - INCIDENT_TIMEOUT_MINUTES * 60]_vars

C10_Witness ==
    /\ Len(swept) = 2
    /\ swept[1] < swept[2]
    /\ swept[2] = now
    /\ \E i \in IncidentIds :
          /\ incidents[i].status = "CLOSED"
          /\ incidents[i].ended_at = swept[1]

RECURSIVE SumConfidence(_)
SumConfidence(seq) ==
    IF seq = << >> THEN 0
    ELSE seq[Len(seq)].confidence + SumConfidence(SubSeq(seq, 1, Len(seq) - 1))

MaxConfidence(seq) ==
    CHOOSE m \in {seq[k].confidence : k \in 1..Len(seq)} :
        \A k \in 1..Len(seq) : seq[k].confidence <= m

\* C5: after a fresh incident has absorbed c1..cn, avg_confidence equals
\* (c1 + ... + cn) / n, the confidence 0 included.
C5_AverageIsMean ==
    \A r \in 1..2 :
        Len(absorbed) > 0 =>
            incidents[r].avg_confidence.num * Len(absorbed) =
                SumConfidence(absorbed) * incidents[r].avg_confidence.den

C7_ActiveEventuallyCloses ==
    \A i \in 1..MaxIncidents :
        (i \in IncidentIds /\ incidents[i].status = "ACTIVE")
            ~> (i \in IncidentIds /\ incidents[i].status # "ACTIVE")

\* C11: review_incident leaves the incident with the review's status,
\* reviewed_by, reviewed_at = now and the notes when given, gives every alert
\* of that incident the status UnderReview / Confirmed / FalseAlarm that
\* belongs to Reviewed / Confirmed / FalseAlarm, and changes no other alert
\* and no other incident.
C11_ReviewCascade ==
    [][\A i \in 1..MaxIncidents, r \in Reviews :
          review_incident(i, r[1], r[2], r[3]) =>
              LET cascaded == CASE r[1] = "REVIEWED" -> "UNDER_REVIEW"
                                [] r[1] = "CONFIRMED" -> "CONFIRMED"
                                [] r[1] = "FALSE_ALARM" -> "FALSE_ALARM"
              IN /\ incidents'[i].status = r[1]
                 /\ incidents'[i].reviewed_by = r[2]
                 /\ incidents'[i].reviewed_at = now
                 /\ incidents'[i].notes =
                        IF r[3] # "" THEN r[3] ELSE incidents[i].notes
                 /\ \A j \in IncidentIds \ {i} : incidents'[j] = incidents[j]
                 /\ Len(alerts') = Len(alerts)
                 /\ \A k \in 1..Len(alerts) :
                        IF alerts[k].incident_id = i
                        THEN alerts'[k] = [alerts[k] EXCEPT !.status = cascaded]
                        ELSE alerts'[k] = alerts[k]]_vars

C11_Witness ==
    \E a, b \in 1..Len(alerts) :
        /\ alerts[a].status = "UNDER_REVIEW"
        /\ incidents[alerts[a].incident_id].status = "REVIEWED"
        /\ incidents[alerts[a].incident_id].reviewed_by = "operator"
        /\ incidents[alerts[a].incident_id].reviewed_at = now
        /\ alerts[b].incident_id # alerts[a].incident_id
        /\ alerts[b].status = "NEW"

\* a detection is accepted: its handler passes the throttle and starts
Accepts(t, camera_id) ==
    /\ task[t].pc = "idle"
    /\ task'[t].pc = "find"
    /\ task'[t].camera_id = camera_id

\* C12: a detection is accepted for a camera only when the camera has no
\* accepted detection since the last reset or the last accepted one is at
\* least 10 seconds old; the accepted detection's time becomes the camera's
\* last-alert time, which nothing but an accepted detection or a reset
\* changes.  Handlers of earlier detections may be in flight.
C12_CooldownBetweenAccepted ==
    [][/\ \A t \in Tasks, c \in CameraIds :
             Accepts(t, c) =>
                 /\ Get(simulation_alert_cooldown, c, 0) # 0 =>
                        now - simulation_alert_cooldown[c] >= 10
                 /\ Get(simulation_alert_cooldown', c, 0) = now
       /\ \A c \in CameraIds :
             Get(simulation_alert_cooldown', c, 0) #
                 Get(simulation_alert_cooldown, c, 0) =>
                    \/ \E t \in Tasks : Accepts(t, c)
                    \/ /\ Get(simulation_alert_cooldown', c, 0) = 0
                       /\ Get(simulation_alert_count', c, 0) = 0
                       /\ task' = task]_vars

C12_Witness ==
    \E t, u \in Tasks :
        /\ t # u
        /\ task[t].pc = "find"
        /\ task[u].pc # "idle"
        /\ task[u].camera_id = task[t].camera_id
        /\ simulation_alert_cooldown[task[t].camera_id] = now
        /\ simulation_alert_count[task[t].camera_id] >= 2
        /\ now >= StartTime + 10

\* a detection handed to create_simulation_alert with the camera at its cap
DroppedAtCap(camera_id) ==
    /\ Get(simulation_alert_count, camera_id, 0) >= 5
    /\ \E t \in Tasks, d \in Detections :
          d[1] = camera_id /\ create_simulation_alert(t, d[1], d[2], d[3])

\* C13: once 5 alerts were accepted for a camera and no reset happened, a
\* further detection on it starts no handler, stores no alert, touches no
\* incident and triggers no broadcast and no notification.
C13_NothingTriggeredAtCap ==
    [][\A c \in CameraIds :
          DroppedAtCap(c) =>
              /\ task' = task
              /\ alerts' = alerts
              /\ incidents' = incidents
              /\ broadcasts' = broadcasts
              /\ notifications' = notifications]_vars

C13_Witness ==
    \E c \in CameraIds :
        /\ c \in DOMAIN simulation_alert_count
        /\ simulation_alert_count[c] = 6
        /\ capped[c] >= 2
        /\ Len(alerts) = 5
        /\ \A t \in Tasks : task[t].pc = "idle"
        /\ now - simulation_alert_cooldown[c] >= 10

\* C14: after a camera's count has reached 5, the 10th detection that
\* follows on that camera is accepted, so that its handler broadcasts an
\* incident update.
C14_TenthAfterCapBroadcasts ==
    [][\A c \in CameraIds :
          (capped[c] = 9 /\ capped'[c] = 10) =>
              \/ \E t \in Tasks : Accepts(t, c)
              \/ broadcasts' = broadcasts + 1]_vars

\* C15: send_alert_notification is invoked in exactly the steps that commit
\* a newly created incident, once each time, and in no step that updates an
\* existing incident; so there are never more notifications than incidents
\* created.
C15_NotifyOnlyNewIncident ==
    [][/\ notifications' # notifications =>
             /\ notifications' = notifications + 1
             /\ Len(incidents') = Len(incidents) + 1
             /\ \E t \in Tasks : commit_alert(t) /\ task[t].is_new_incident
       /\ Len(incidents') = Len(incidents) + 1 =>
             notifications' = notifications + 1
       /\ notifications' <= Len(incidents')]_vars

C15_Witness ==
    /\ notifications = 1
    /\ Len(incidents) = 1
    /\ incidents[1].alert_count = 2
    /\ Len(alerts) = 2
    /\ broadcasts = 1

\* C17: reset_simulation_alerts(camera_id) leaves that camera's alert count
\* and last-alert time at zero and every other camera's counters as they
\* were; without a camera id it clears the counters of all cameras; and a
\* detection on a camera whose counters are at zero is accepted.
C17_ResetClearsThrottle ==
    [][/\ \A c \in CameraIds :
             reset_simulation_alerts(c) =>
                 /\ Get(simulation_alert_count', c, 0) = 0
                 /\ Get(simulation_alert_cooldown', c, 0) = 0
                 /\ \A o \in CameraIds \ {c} :
                        /\ Get(simulation_alert_count', o, 0) =
                               Get(simulation_alert_count, o, 0)
                        /\ Get(simulation_alert_cooldown', o, 0) =
                               Get(simulation_alert_cooldown, o, 0)
       /\ reset_all_simulation_alerts =>
             \A c \in CameraIds :
                 /\ Get(simulation_alert_count', c, 0) = 0
                 /\ Get(simulation_alert_cooldown', c, 0) = 0
       /\ \A t \in Tasks, d \in Detections :
             (/\ create_simulation_alert(t, d[1], d[2], d[3])
              /\ Get(simulation_alert_count, d[1], 0) = 0
              /\ Get(simulation_alert_cooldown, d[1], 0) = 0) =>
                 Accepts(t, d[1])]_vars

\* a detection accepted right after a reset, inside what was the cooldown
C17_Witness ==
    \E t \in Tasks :
        /\ task[t].pc = "find"
        /\ Get(simulation_alert_count, task[t].camera_id, 0) = 1
        /\ Get(simulation_alert_cooldown, task[t].camera_id, 0) = now
        /\ \E i \in IncidentIds :
              /\ incidents[i].camera_id = db_camera_id(task[t].camera_id)
              /\ incidents[i].last_detection_at = now
        /\ \E o \in CameraIds \ {task[t].camera_id} :
              Get(simulation_alert_count, o, 0) = 1

\* C16: once the alert and the incident are committed, an error raised by the
\* broadcast or by the notification changes neither row (the incident keeps
\* the statistics the handler wrote) and the handler still returns the alert
\* id, never None.
C16_DownstreamFailureKeepsCommit ==
    [][\A t \in Tasks :
          (task[t].pc \in {"broadcast", "notify"} /\ task'[t].pc # task[t].pc) =>
             /\ incidents' = incidents
             /\ alerts' = alerts
             /\ \E k \in 1..Len(alerts) :
                   /\ alerts[k].id = task[t].alert_id
                   /\ alerts[k].incident_id = task[t].incident_id
             /\ task[t].incident_id \in IncidentIds
             /\ incidents[task[t].incident_id].alert_count = task[t].incident.alert_count
             /\ incidents[task[t].incident_id].detection_count = task[t].incident.detection_count
             /\ incidents[task[t].incident_id].avg_confidence = task[t].incident.avg_confidence
             /\ incidents[task[t].incident_id].max_confidence = task[t].incident.max_confidence
             /\ (task'[t].pc = "idle" =>
                    handled'[Handled(task[t].alert_id)].returned = task[t].alert_id)
      ]_vars

\* a handler whose broadcast and notification both raised has returned
C16_Witness ==
    \E k \in 1..Len(handled) :
       /\ handled[k].ws_err
       /\ handled[k].notif_err
       /\ handled[k].returned = handled[k].alert_id
       /\ \E a \in 1..Len(alerts) : alerts[a].id = handled[k].alert_id

\* C18: a capture loop never blocks on queue backpressure: when the task
\* queue is at its maximum depth the new task is dropped and the loop goes on,
\* so that no capture loop is ever suspended inside a queue put.
C18_CaptureNeverSuspendedInPut ==
    \A c \in PipelineCameras : capture[c].pc # "put"

\* C20: at every callback, the results of any one camera arrive in the order
\* in which that camera's frames were submitted, whatever the number of
\* workers and the interleaving of their steps.
C20_PerCameraOrderAtEveryCallback ==
    \A k \in Callbacks :
       \A i, j \in 1..Len(delivered[k]) :
          (i < j /\ delivered[k][i].camera_id = delivered[k][j].camera_id) =>
             delivered[k][i].frame_number < delivered[k][j].frame_number

\* C19: every dequeue returns the entry with the smallest priority value of
\* all entries in the queue at that moment and, among those of that priority,
\* the smallest timestamp, so that a queued High frame is served before any
\* Normal or Low frame queued with it.
C19_DequeueReturnsLeast ==
    served.packet # NoFrame =>
       \A i \in 1..Len(served.before) :
          ~EntryBefore(served.before[i], served.packet)

\* C21: when the detector raises for a packet, the worker still produces a
\* result for it, with no detections and tagged with the error, hands it to
\* the result sinks like any other result, and goes on to the next packet.
C21_DetectorErrorYieldsEmptyResult ==
    (processing.pc = "get" /\ processing.detector = "raised") =>
       /\ processing.result = "empty"
       /\ "on_frame" \in processing.sinks

\* C22: every result, with or without detections, is handed to every sink
\* that applies to it, and a sink that raises does not keep the result from
\* the sinks after it (the alert check, the frame sink).
C22_EveryResultReachesEverySink ==
    (processing.pc = "get" /\ processing.detector = "returned") =>
       /\ "on_frame" \in processing.sinks
       /\ processing.result = "detections" =>
             {"on_detection", "check_alert"} \subseteq processing.sinks

\* C23: once remove_camera has returned for a camera, its reader has
\* stopped (it reads and enqueues nothing more) and its capture handle is
\* released, also when the reader was in a read or in a put at the call.
C23_RemovedReaderHasStopped ==
    \A c \in PipelineCameras :
       ~reader[c].registered =>
          reader[c].pc = "stopped" /\ reader[c].released

\* C24: a reader loop ends after 10 failed reads in a row, and then its
\* capture handle is released.
C24_ReaderGivesUpAfterFailures ==
    \A c \in PipelineCameras :
       reader[c].failures >= max_consecutive_failures =>
          reader[c].pc = "stopped" /\ reader[c].released

\* exactly one frame due for detection in every skip_frames frames in a row
OnePerWindow(eligible) ==
    \A i \in 1..(Len(eligible) - skip_frames + 1) :
       Cardinality({j \in i..(i + skip_frames - 1) : eligible[j]}) = 1

\* C25: of any skip_frames frames a camera captured in a row exactly one is
\* due for detection, the one whose count is a multiple of skip_frames, and a
\* failed read does not move the count.
C25_OneEligibleFramePerWindow ==
    [][\A c \in PipelineCameras :
          /\ OnePerWindow(reader'[c].eligible)
          /\ Len(reader'[c].eligible) = reader'[c].frame_count
          /\ reader'[c].failures > reader[c].failures =>
                /\ reader'[c].frame_count = reader[c].frame_count
                /\ reader'[c].eligible = reader[c].eligible
      ]_vars

\* a camera that captured two windows of frames, with failed reads after them
C25_Witness ==
    \E c \in PipelineCameras :
       /\ Len(reader[c].eligible) >= 2 * skip_frames
       /\ reader[c].failures > 0

\* C26: on a detection-eligible frame of the live stream, detection is
\* skipped only when the motion check reports no motion and the camera has a
\* previous detection set; otherwise (motion, or no motion and no previous
\* set) detection runs on that frame.
C26_SkippedOnlyWithPreviousDetections ==
    \A c \in PipelineCameras :
        (stream[c].frame_count > 0 /\ stream[c].should_detect) =>
            (stream[c].detected <=>
                ~(~stream[c].has_motion /\ stream[c].had_detections))

\* C29: whenever cleanup_stale_caches performs a sweep, the motion-cache
\* entry of every camera whose entry has not been refreshed for more than 30
\* seconds, and is not refreshed by the frame being processed, is removed.
C29_SweepRemovesStaleEntries ==
    [][last_cleanup' # last_cleanup =>
          \A c \in DOMAIN motion_cache :
              (now - motion_cache[c].at > STALE_AFTER) =>
                  \/ c \notin DOMAIN motion_cache'
                  \/ motion_cache'[c].at = now']_vars

\* C27: at any instant the number of detector invocations in progress is at
\* most the number of worker tasks, which is at most num_workers, however
\* many cameras are registered and however often start is called.
C27_InvocationsBoundedByWorkers ==
    /\ Cardinality(InProgress) <= Cardinality(Alive("worker"))
    /\ Cardinality(Alive("worker")) <= num_workers
    /\ pipeline.workers = Alive("worker")

C27_Witness ==
    /\ pipeline.start_calls >= 2
    /\ pipeline.running
    /\ Cardinality(InProgress) = num_workers
    /\ DOMAIN pipeline.active_cameras = PipelineCameras

\* C28: for each camera id at most one capture loop is alive with its loop
\* condition true at any time, also after add_camera was called twice for
\* the id.
C28_OneCaptureLoopPerCamera ==
    \A c \in PipelineCameras :
        Cardinality({i \in CaptureLoops(c) : CaptureLoopGoesOn(i)}) <= 1

\* the alert rows of the incidents of a camera
AlertsOf(camera_id) ==
    {j \in 1..Len(alerts) :
        /\ alerts[j].incident_id \in 1..Len(incidents)
        /\ incidents[alerts[j].incident_id].camera_id = db_camera_id(camera_id)}

\* the handlers of a camera that have not committed their alert yet
InFlight(camera_id) ==
    {t \in Tasks : task[t].pc # "idle" /\ task[t].camera_id = camera_id}

\* C30: between two resets, in any interleaving of the handlers, the alerts
\* persisted for a camera and the handlers still running for it are together
\* at most MAX_ALERTS_PER_CAMERA, and a detection of a camera at its cap
\* starts no handler and changes no row.
C30_AtMostMaxAlertsPersisted ==
    [][\A c \in CameraIds :
          /\ Cardinality(AlertsOf(c)) + Cardinality(InFlight(c))
                 <= MAX_ALERTS_PER_CAMERA
          /\ Cardinality(AlertsOf(c))' + Cardinality(InFlight(c))'
                 <= MAX_ALERTS_PER_CAMERA
          /\ AtCap(Get(simulation_alert_count, c, 0)) =>
                /\ InFlight(c)' \subseteq InFlight(c)
                /\ Cardinality(AlertsOf(c))' <=
                       Cardinality(AlertsOf(c)) + Cardinality(InFlight(c))]_vars

C30_Witness ==
    \E c \in CameraIds :
        /\ Cardinality(AlertsOf(c)) = MAX_ALERTS_PER_CAMERA
        /\ Get(simulation_alert_count, c, 0) = MAX_ALERTS_PER_CAMERA + 1
        /\ capped[c] >= 1
        /\ \E j \in 1..Len(alerts) : \E k \in 1..Len(alerts) :
              j < k /\ alerts[j].id > alerts[k].id

\* C31: should_skip never skips the first frame of a camera, never skips a
\* frame whose hash differs from the last recorded one and then resets the
\* skip count, never skips more than 10 frames in a row, and leaves the hash
\* and the skip count of every other camera as they were.
C31_SkipsBoundedAndPerCamera ==
    [][LET call == frame_buffer'.call
           c == call.camera_id
       IN  /\ ~call.known => ~call.skip
           /\ (call.known /\ ~call.same) =>
                  /\ ~call.skip
                  /\ frame_buffer'.skip_count[c] = 0
                  /\ frame_buffer'.last_hash[c] = call.frame_hash
           /\ frame_buffer'.run[c] <= MAX_CONSECUTIVE_SKIPS
           /\ \A o \in PipelineCameras \ {c} :
                 /\ Get(frame_buffer'.last_hash, o, "") =
                        Get(frame_buffer.last_hash, o, "")
                 /\ Get(frame_buffer'.skip_count, o, 0) =
                        Get(frame_buffer.skip_count, o, 0)
                 /\ frame_buffer'.run[o] = frame_buffer.run[o]]_vars

C31_Witness ==
    /\ frame_buffer.call.known
    /\ frame_buffer.call.same
    /\ ~frame_buffer.call.skip
    /\ \E o \in PipelineCameras \ {frame_buffer.call.camera_id} :
          frame_buffer.run[o] = MAX_CONSECUTIVE_SKIPS - 1

\* C32: for one camera two on_alert invocations are never less than
\* min_alert_interval seconds apart, each is for a critical detection, and
\* none happens for a camera whose alert_on_detection is off.
C32_AlertsSpacedAndCritical ==
    \A c \in PipelineCameras :
        LET calls == on_alert_calls[c]
        IN  /\ \A i \in 1..Len(calls) : \A j \in 1..Len(calls) :
                  i < j => calls[j].time - calls[i].time >= min_alert_interval
            /\ \A i \in 1..Len(calls) : calls[i].severity = "critical"
            /\ calls # <<>> => camera_states[c].alert_on_detection

\* C33: after any sequence of add_camera and remove_camera calls at most
\* max_cameras cameras are registered and cameras, readers and stop_events
\* have the same keys; add_camera returns False exactly for a registered id
\* or at capacity, remove_camera exactly for an unknown id, and a call that
\* returns False changes nothing.
C33_RegistryConsistent ==
    [][LET c == registry_call'.camera_id
       IN  /\ Cardinality(registry'.cameras) <= max_cameras
           /\ registry'.readers = registry'.cameras
           /\ registry'.stop_events = registry'.cameras
           /\ ~registry_call'.returned => registry' = registry
           /\ registry_call'.op = "add_camera" =>
                 (registry_call'.returned <=>
                     /\ c \notin registry.cameras
                     /\ Cardinality(registry.cameras) < max_cameras)
           /\ registry_call'.op = "remove_camera" =>
                 (registry_call'.returned <=> c \in registry.cameras)]_vars

C33_Witness ==
    /\ Cardinality(registry.cameras) = max_cameras
    /\ registry_call.op = "add_camera"
    /\ ~registry_call.returned
    /\ registry_call.camera_id \notin registry.cameras

\* the statistics of an incident row
IncidentStatistics(inc) ==
    <<inc.alert_count, inc.detection_count, inc.max_confidence,
      inc.avg_confidence, inc.last_detection_at>>

\* C34: once an incident has left ACTIVE, no step changes its alert_count,
\* detection_count, max or average confidence or last_detection_at, and no
\* step links a new alert to it, whatever handler is in flight.
C34_FrozenAfterActive ==
    [][\A i \in IncidentIds :
          incidents[i].status # "ACTIVE" =>
              /\ IncidentStatistics(incidents'[i]) = IncidentStatistics(incidents[i])
              /\ \A k \in 1..Len(alerts') :
                    alerts'[k].incident_id = i =>
                        /\ k <= Len(alerts)
                        /\ alerts[k].incident_id = i]_vars

\* C35: a handler that ends without having persisted an alert gives its slot
\* back: the step in which it returns None lowers the throttle's count of its
\* camera, so that the count stays the number of alerts persisted.
C35_FailedDetectionConsumesNoSlot ==
    [][\A t \in Tasks :
          (/\ task[t].pc # "idle"
           /\ task'[t].pc = "idle"
           /\ Len(alerts') = Len(alerts)) =>
              Get(simulation_alert_count', task[t].camera_id, 0) <
                  Get(simulation_alert_count, task[t].camera_id, 0)]_vars

\* C36: for every incident, alert_count is the number of alert rows whose
\* incident_id is the incident, after any sequence of accepted detections,
\* alert deletions and reviews.
C36_AlertCountIsRowCount ==
    \A i \in IncidentIds :
        incidents[i].alert_count =
            Cardinality({k \in 1..Len(alerts) : alerts[k].incident_id = i})

\* C37: the overlay set the generator carries between frames is the result
\* of the most recent detection pass that ran: after a pass that found
\* nothing, no earlier boxes are carried on.
C37_OverlayIsLatestDetection ==
    \A c \in PipelineCameras :
        stream[c].last_detections = stream[c].latest

\* C38: for every camera the status endpoint lists, can_alert is true exactly
\* when create_simulation_alert would accept the camera's next detection at
\* that moment.
C38_StatusAgreesWithThrottle ==
    \A c \in DOMAIN simulation_alert_count :
        can_alert(simulation_alert_count[c],
                  Get(simulation_alert_cooldown, c, 0), now)
            <=> WouldAccept(c, now)

\* C39: a camera never has more than one capture open, and once its
\* _stream_loop has ended after max_reconnect_attempts failed reconnects it
\* has none.
C39_AtMostOneCaptureAndNoneAfterExit ==
    \A c \in PipelineCameras :
        /\ Cardinality(camera_manager[c].open) <= 1
        /\ camera_manager[c].pc = "exited" => camera_manager[c].open = {}

\* C40: once stop has returned, the workers have ended and no capture loop
\* puts another task on the queue: while the pipeline is not running the
\* queue gets no new entry, and no capture loop is left waiting in a put.
C40_NothingEnqueuedAfterStop ==
    [][~pipeline.running =>
          /\ Alive("worker") = {}
          /\ task_queue' \subseteq task_queue]_vars

====
